---- MODULE Spec2Model ----
(***************************************************************************)
(* Token issue / verification (server/src/utils/auth.js) and the bearer    *)
(* gate (server/src/middleware/auth.js) of the bug tracker, as a state     *)
(* machine.  JavaScript strings are TLA+ strings; every other JavaScript   *)
(* value is a tagged record (JsString, JsNumber, JsObject, ...).           *)
(***************************************************************************)
EXTENDS Integers, Sequences, FiniteSets, TLC

(***************************************************************************)
(* Bounds of the model.                                                    *)
(***************************************************************************)
\* Date.now() / 1000 runs over 0 .. MaxClock.
MaxClock == 1
\* Requests that can be inside authMiddleware's route at once.
MaxInFlight == 2

(***************************************************************************)
(* JavaScript values.                                                      *)
(***************************************************************************)
Undefined == [t |-> "undefined"]
Null == [t |-> "null"]
JsString(s) == [t |-> "string", s |-> s]
JsNumber(n) == [t |-> "number", n |-> n]
JsBoolean(b) == [t |-> "boolean", b |-> b]
\* An object is its own enumerable properties in insertion order.
JsObject(props) == [t |-> "object", o |-> props]
Prop(k, v) == [k |-> k, v |-> v]

\* ToBoolean: what `!x` and `a || b` test.
Truthy(x) ==
  CASE x.t = "undefined" -> FALSE
    [] x.t = "null" -> FALSE
    [] x.t = "string" -> x.s # ""
    [] x.t = "number" -> x.n # 0
    [] x.t = "boolean" -> x.b
    [] OTHER -> TRUE

\* x.k for an object x; a missing property reads as undefined, and so does
\* any of these properties of a number or a boolean.
Get(x, k) ==
  IF x.t # "object" THEN Undefined
  ELSE LET hits == {i \in 1..Len(x.o) : x.o[i].k = k}
       IN IF hits = {} THEN Undefined ELSE x.o[CHOOSE i \in hits : TRUE].v

\* Whether reading a property of x throws a TypeError.
NoProperties(x) == x.t \in {"undefined", "null"}

(***************************************************************************)
(* Strings.                                                                *)
(***************************************************************************)
CharAt(s, i) == SubSeq(s, i, i)

\* String.prototype.startsWith
startsWith(s, prefix) ==
  /\ Len(s) >= Len(prefix)
  /\ SubSeq(s, 1, Len(prefix)) = prefix

\* String.prototype.slice(n), n >= 0
slice(s, n) == SubSeq(s, n + 1, Len(s))

\* The concatenation of strs[lo..hi], a sequence of strings.
RECURSIVE Concat(_, _, _)
Concat(strs, lo, hi) ==
  IF lo > hi THEN ""
  ELSE IF lo = hi THEN strs[lo]
  ELSE LET mid == (lo + hi) \div 2
       IN Concat(strs, lo, mid) \o Concat(strs, mid + 1, hi)

Join(strs) == Concat(strs, 1, Len(strs))

\* String.prototype.split(sep) for a one-character separator: the pieces
\* between consecutive separators, empty pieces included.
split(s, sep) ==
  LET IsSep(i) == CharAt(s, i) = sep
      at == SelectSeq([i \in 1..Len(s) |-> i], IsSep)
      from(k) == IF k = 1 THEN 1 ELSE at[k - 1] + 1
      to(k) == IF k = Len(at) + 1 THEN Len(s) ELSE at[k] - 1
  IN [k \in 1..(Len(at) + 1) |-> SubSeq(s, from(k), to(k))]

\* Array destructuring `[a, b, c] = parts`: a missing element is undefined.
Element(parts, i) == IF i <= Len(parts) THEN JsString(parts[i]) ELSE Undefined

(***************************************************************************)
(* Buffer: UTF-8 and base64.  The texts of this model are ASCII.           *)
(***************************************************************************)
\* Printable ASCII: code units 32..95 and 97..126 (a TLA+ string cannot hold
\* the grave accent, code unit 96, which no text of this model contains).
AsciiLow ==
  " !\"#$%&'()*+,-./0123456789:;<=>?@ABCDEFGHIJKLMNOPQRSTUVWXYZ[\\]^_"
AsciiHigh == "abcdefghijklmnopqrstuvwxyz{|}~"

Base64Alphabet ==
  "ABCDEFGHIJKLMNOPQRSTUVWXYZabcdefghijklmnopqrstuvwxyz0123456789+/"

IndexIn(alphabet, c) ==
  LET hits == {i \in 1..Len(alphabet) : CharAt(alphabet, i) = c}
  IN IF hits = {} THEN 0 ELSE CHOOSE i \in hits : TRUE

\* Code unit of a character.
CharCode(c) ==
  IF IndexIn(AsciiLow, c) > 0 THEN 31 + IndexIn(AsciiLow, c)
  ELSE 96 + IndexIn(AsciiHigh, c)

\* Buffer.from(string): the bytes of an ASCII string.
BytesOf(s) == [i \in 1..Len(s) |-> CharCode(CharAt(s, i))]

\* buf.toString(): printable ASCII and JSON whitespace decode to themselves.
\* Other control bytes decode to a control character (form feed stands for
\* them) and bytes above 126 to a character outside ASCII ("?" stands for
\* it): JSON.parse treats the stand-ins as it treats the originals.
ByteChar(b) ==
  IF b >= 32 /\ b <= 95 THEN CharAt(AsciiLow, b - 31)
  ELSE IF b >= 97 /\ b <= 126 THEN CharAt(AsciiHigh, b - 96)
  ELSE IF b = 9 THEN "\t"
  ELSE IF b = 10 THEN "\n"
  ELSE IF b = 13 THEN "\r"
  ELSE IF b < 32 THEN "\f"
  ELSE "?"

StringOf(bytes) == Join([i \in 1..Len(bytes) |-> ByteChar(bytes[i])])

Sextet(n) == CharAt(Base64Alphabet, n + 1)

\* One group of buf.toString('base64'): up to three bytes to four
\* characters, '=' padding a short group.
Base64Group(bytes) ==
  IF Len(bytes) = 1 THEN
    Sextet(bytes[1] \div 4) \o Sextet((bytes[1] % 4) * 16) \o "=="
  ELSE IF Len(bytes) = 2 THEN
    Sextet(bytes[1] \div 4)
      \o Sextet((bytes[1] % 4) * 16 + bytes[2] \div 16)
      \o Sextet((bytes[2] % 16) * 4) \o "="
  ELSE
    Sextet(bytes[1] \div 4)
      \o Sextet((bytes[1] % 4) * 16 + bytes[2] \div 16)
      \o Sextet((bytes[2] % 16) * 4 + bytes[3] \div 64)
      \o Sextet(bytes[3] % 64)

\* buf.toString('base64')
Base64Encode(bytes) ==
  LET n == Len(bytes)
      upto(g) == IF 3 * g > n THEN n ELSE 3 * g
  IN Join([g \in 1..((n + 2) \div 3) |->
             Base64Group(SubSeq(bytes, 3 * g - 2, upto(g)))])

\* Value of a base64 character, url-safe alphabet included; -1 for any other
\* character.
Unbase64(c) ==
  IF c = "-" THEN 62
  ELSE IF c = "_" THEN 63
  ELSE IndexIn(Base64Alphabet, c) - 1

\* The sextets of a base64 text; characters outside the alphabet (padding,
\* whitespace, anything else) are skipped, as Buffer.from(s, 'base64') does.
SextetsOf(s) ==
  LET InAlphabet(c) == Unbase64(c) >= 0
      kept == SelectSeq([i \in 1..Len(s) |-> CharAt(s, i)], InAlphabet)
  IN [i \in 1..Len(kept) |-> Unbase64(kept[i])]

\* The bytes the sextets x spell: byte j is bits 8j-7 .. 8j of their
\* concatenation; trailing bits short of a byte are dropped.
BytesOfSextets(x) ==
  LET byte(j) ==
        LET q == (8 * (j - 1)) \div 6 + 1
            r == (8 * (j - 1)) % 6
        IN IF r = 0 THEN x[q] * 4 + x[q + 1] \div 16
           ELSE IF r = 2 THEN (x[q] % 16) * 16 + x[q + 1] \div 4
           ELSE (x[q] % 4) * 64 + x[q + 1]
  IN [j \in 1..((Len(x) * 6) \div 8) |-> byte(j)]

\* Buffer.from(s, 'base64'): never throws.
Base64Decode(s) == BytesOfSextets(SextetsOf(s))

(***************************************************************************)
(* JSON.  The texts of this model hold objects, arrays, strings, integers  *)
(* and the literals; they hold no fraction, exponent or \u escape.         *)
(***************************************************************************)
Digits == "0123456789"

RECURSIVE NatToString(_)
NatToString(n) ==
  IF n < 10 THEN CharAt(Digits, n + 1)
  ELSE NatToString(n \div 10) \o CharAt(Digits, (n % 10) + 1)

\* JSON's QuoteJSONString: the body of a quoted string.
EscapedChar(c) ==
  IF c = "\"" THEN "\\\""
  ELSE IF c = "\\" THEN "\\\\"
  ELSE IF c = "\n" THEN "\\n"
  ELSE IF c = "\r" THEN "\\r"
  ELSE IF c = "\t" THEN "\\t"
  ELSE IF c = "\f" THEN "\\f"
  ELSE c

Quote(s) ==
  "\"" \o Join([i \in 1..Len(s) |-> EscapedChar(CharAt(s, i))]) \o "\""

RECURSIVE JSON_stringify(_)
RECURSIVE MembersText(_, _)
RECURSIVE ElementsText(_)

\* The serialised properties of an object; a property whose value is
\* undefined is left out.
MembersText(props, first) ==
  IF props = <<>> THEN ""
  ELSE LET p == Head(props) IN
    IF p.v.t = "undefined" THEN MembersText(Tail(props), first)
    ELSE (IF first THEN "" ELSE ",") \o Quote(p.k) \o ":"
           \o JSON_stringify(p.v) \o MembersText(Tail(props), FALSE)

\* The serialised elements of an array; undefined serialises as null.
ElementsText(elems) ==
  IF elems = <<>> THEN ""
  ELSE (IF Head(elems).t = "undefined" THEN "null"
        ELSE JSON_stringify(Head(elems)))
         \o (IF Len(elems) > 1 THEN "," ELSE "") \o ElementsText(Tail(elems))

\* JSON.stringify(value) for a value other than undefined.
JSON_stringify(x) ==
  CASE x.t = "string" -> Quote(x.s)
    [] x.t = "number" -> IF x.n < 0 THEN "-" \o NatToString(-x.n)
                         ELSE NatToString(x.n)
    [] x.t = "boolean" -> IF x.b THEN "true" ELSE "false"
    [] x.t = "null" -> "null"
    [] x.t = "array" -> "[" \o ElementsText(x.a) \o "]"
    [] x.t = "object" -> "{" \o MembersText(x.o, TRUE) \o "}"

JsArray(elems) == [t |-> "array", a |-> elems]

\* A parse step: the value read and the position after it, or a failure.
Parsed(v, i) == [ok |-> TRUE, v |-> v, i |-> i]
ParseFail == [ok |-> FALSE]

IsDigit(c) == c # "" /\ IndexIn(Digits, c) > 0

\* s[i..j], cut at the end of s.
Sub(s, i, j) == SubSeq(s, i, IF j > Len(s) THEN Len(s) ELSE j)

RECURSIVE SkipWs(_, _)
SkipWs(s, i) ==
  IF i <= Len(s) /\ CharAt(s, i) \in {" ", "\t", "\n", "\r"}
  THEN SkipWs(s, i + 1) ELSE i

\* Defining a property: an existing key keeps its place and takes the value.
SetProp(props, k, v) ==
  IF \E j \in 1..Len(props) : props[j].k = k
  THEN [j \in 1..Len(props) |->
          IF props[j].k = k THEN Prop(k, v) ELSE props[j]]
  ELSE Append(props, Prop(k, v))

\* The body of a string, from the character after the opening quote.
RECURSIVE ScanString(_, _, _)
ScanString(s, i, acc) ==
  IF i > Len(s) THEN ParseFail
  ELSE LET c == CharAt(s, i) IN
    IF c = "\"" THEN Parsed(JsString(acc), i + 1)
    ELSE IF c \in {"\t", "\n", "\r", "\f"} THEN ParseFail
    ELSE IF c = "\\" THEN
      IF i + 1 > Len(s) THEN ParseFail
      ELSE LET d == CharAt(s, i + 1) IN
        IF d \in {"\"", "\\", "/"} THEN ScanString(s, i + 2, acc \o d)
        ELSE IF d = "n" THEN ScanString(s, i + 2, acc \o "\n")
        ELSE IF d = "r" THEN ScanString(s, i + 2, acc \o "\r")
        ELSE IF d = "t" THEN ScanString(s, i + 2, acc \o "\t")
        ELSE IF d = "f" THEN ScanString(s, i + 2, acc \o "\f")
        ELSE ParseFail
    ELSE ScanString(s, i + 1, acc \o c)

RECURSIVE ScanDigits(_, _, _)
ScanDigits(s, i, acc) ==
  IF i <= Len(s) /\ IsDigit(CharAt(s, i))
  THEN ScanDigits(s, i + 1, acc * 10 + (IndexIn(Digits, CharAt(s, i)) - 1))
  ELSE Parsed(JsNumber(acc), i)

\* The number whose digits start at position j, negated when neg.
Signed(neg, r) == IF neg THEN Parsed(JsNumber(-r.v.n), r.i) ELSE r

DigitsAt(s, j, neg) ==
  IF j > Len(s) \/ ~IsDigit(CharAt(s, j)) THEN ParseFail
  ELSE IF CharAt(s, j) = "0" THEN Signed(neg, Parsed(JsNumber(0), j + 1))
  ELSE Signed(neg, ScanDigits(s, j, 0))

\* An integer: -? (0 | [1-9][0-9]*).
ParseNumber(s, i) ==
  IF CharAt(s, i) = "-" THEN DigitsAt(s, i + 1, TRUE) ELSE DigitsAt(s, i, FALSE)

RECURSIVE ParseValue(_, _)
RECURSIVE ParseMembers(_, _, _)
RECURSIVE ParseElements(_, _, _)

\* After a member's value, at position e: a comma, or the closing brace.
MemberEnd(s, e, props) ==
  IF e > Len(s) THEN ParseFail
  ELSE IF CharAt(s, e) = "," THEN ParseMembers(s, e + 1, props)
  ELSE IF CharAt(s, e) = "}" THEN Parsed(JsObject(props), e + 1)
  ELSE ParseFail

\* A member's value val, read for key.
MemberValue(s, key, val, props) ==
  IF ~val.ok THEN ParseFail
  ELSE MemberEnd(s, SkipWs(s, val.i), SetProp(props, key.v.s, val.v))

\* After a member's key, at position c: the colon, then the value.
MemberColon(s, key, c, props) ==
  IF c > Len(s) \/ CharAt(s, c) # ":" THEN ParseFail
  ELSE MemberValue(s, key, ParseValue(s, c + 1), props)

\* A member's key, read as a string.
MemberKey(s, key, props) ==
  IF ~key.ok THEN ParseFail ELSE MemberColon(s, key, SkipWs(s, key.i), props)

\* A member, at position i.
Member(s, i, props) ==
  IF i > Len(s) \/ CharAt(s, i) # "\"" THEN ParseFail
  ELSE MemberKey(s, ScanString(s, i + 1, ""), props)

\* The members of an object, from the first key to the closing brace.
ParseMembers(s, i0, props) == Member(s, SkipWs(s, i0), props)

\* After an element, at position e: a comma, or the closing bracket.
ElementEnd(s, e, elems) ==
  IF e > Len(s) THEN ParseFail
  ELSE IF CharAt(s, e) = "," THEN ParseElements(s, e + 1, elems)
  ELSE IF CharAt(s, e) = "]" THEN Parsed(JsArray(elems), e + 1)
  ELSE ParseFail

\* An element val of an array.
ElementValue(s, val, elems) ==
  IF ~val.ok THEN ParseFail
  ELSE ElementEnd(s, SkipWs(s, val.i), Append(elems, val.v))

\* The elements of an array, from the first element to the closing bracket.
ParseElements(s, i0, elems) == ElementValue(s, ParseValue(s, i0), elems)

\* The value that starts at position i, which is no whitespace.
ValueAt(s, i) ==
  IF i > Len(s) THEN ParseFail
  ELSE LET c == CharAt(s, i)
           j == SkipWs(s, i + 1)
       IN IF c = "{" THEN
            IF j <= Len(s) /\ CharAt(s, j) = "}"
            THEN Parsed(JsObject(<<>>), j + 1)
            ELSE ParseMembers(s, i + 1, <<>>)
          ELSE IF c = "[" THEN
            IF j <= Len(s) /\ CharAt(s, j) = "]"
            THEN Parsed(JsArray(<<>>), j + 1)
            ELSE ParseElements(s, i + 1, <<>>)
          ELSE IF c = "\"" THEN ScanString(s, i + 1, "")
          ELSE IF c = "-" \/ IsDigit(c) THEN ParseNumber(s, i)
          ELSE IF Sub(s, i, i + 3) = "true" THEN Parsed(JsBoolean(TRUE), i + 4)
          ELSE IF Sub(s, i, i + 4) = "false" THEN Parsed(JsBoolean(FALSE), i + 5)
          ELSE IF Sub(s, i, i + 3) = "null" THEN Parsed(Null, i + 4)
          ELSE ParseFail

ParseValue(s, i0) == ValueAt(s, SkipWs(s, i0))

\* The whole text must be one value: nothing but whitespace may follow it.
WholeText(text, r) ==
  IF r.ok /\ SkipWs(text, r.i) > Len(text) THEN [ok |-> TRUE, v |-> r.v]
  ELSE ParseFail

\* JSON.parse(text): the value, or a SyntaxError (ok = FALSE).
JSON_parse(text) == WholeText(text, ParseValue(text, 1))

(***************************************************************************)
(* server/src/utils/auth.js                                                *)
(***************************************************************************)
\* Size in bytes of a SHA-256 digest.
DigestSize == 32

\* The sum of f[lo..hi].
RECURSIVE Sum(_, _, _)
Sum(f, lo, hi) ==
  IF lo > hi THEN 0
  ELSE IF lo = hi THEN f[lo]
  ELSE LET mid == (lo + hi) \div 2 IN Sum(f, lo, mid) + Sum(f, mid + 1, hi)

\* crypto.createHmac('sha256', key).update(msg).digest('base64').  The digest
\* is a keyed checksum standing for HMAC-SHA256: DigestSize bytes that are a
\* function of the key and the message, which is all the program uses.
createHmac(key, msg) ==
  LET bytes == BytesOf(key) \o BytesOf(msg)
      h == Sum([i \in 1..Len(bytes) |-> (bytes[i] * (i + 7)) % 65521],
               1, Len(bytes)) % 65521
  IN Base64Encode([k \in 1..DigestSize |-> (h * k + k * k) % 256])

\* The outcome of a call: a returned value, or an exception that leaves it.
Returned(v) == [threw |-> FALSE, ret |-> v]
Thrown(e) == [threw |-> TRUE, error |-> e]

\* a || b
Or(a, b) == IF Truthy(a) THEN a ELSE b

\* The header segment: base64 of {"alg":"HS256","typ":"JWT"}.
HeaderSegment ==
  Base64Encode(BytesOf(JSON_stringify(
    JsObject(<<Prop("alg", JsString("HS256")), Prop("typ", JsString("JWT"))>>))))

\* Faulty variant of ClaimsFor: the id is read from user.id alone, without
\* the _id || id fallback.
ClaimsIdOnly(user, time) ==
  LET field(k) == Get(user, k)
  IN JsObject(<<Prop("id", field("id")),
                Prop("email", field("email")),
                Prop("username", field("username")),
                Prop("iat", JsNumber(time))>>)

\* Faulty variant of ClaimsFor: a missing field is encoded as null
\* (user.email || null) instead of being left out.
ClaimsNullable(user, time) ==
  LET field(k) == Get(user, k)
  IN JsObject(<<Prop("id", Or(Or(field("_id"), field("id")), Null)),
                Prop("email", Or(field("email"), Null)),
                Prop("username", Or(field("username"), Null)),
                Prop("iat", JsNumber(time))>>)

\* The claims object generateToken encodes for `user` at second `time`.
ClaimsFor(user, time) ==
  LET field(k) == Get(user, k)
  IN JsObject(<<Prop("id", Or(field("_id"), field("id"))),
                Prop("email", field("email")),
                Prop("username", field("username")),
                Prop("iat", JsNumber(time))>>)

\* header.payload.signature, the signature computed over header.payload.
Signed3(header, payload, key) ==
  header \o "." \o payload \o "." \o createHmac(key, header \o "." \o payload)

\* generateToken(user), with process.env.JWT_SECRET = env and
\* Math.floor(Date.now() / 1000) = time; the key is process.env.JWT_SECRET
\* || 'test-secret-key'.  Reading user._id of null or undefined throws a
\* TypeError, which nothing catches.
generateToken(user, env, time) ==
  IF NoProperties(user) THEN Thrown("TypeError")
  ELSE Returned(JsString(Signed3(
         HeaderSegment,
         Base64Encode(BytesOf(JSON_stringify(ClaimsFor(user, time)))),
         Or(env, JsString("test-secret-key")).s)))

\* JSON.parse's outcome as the outcome of the try block.
Decoded(parsed) ==
  IF parsed.ok THEN Returned(parsed.v) ELSE Thrown("SyntaxError")

\* Faulty variant of VerifyParts: the signature is recomputed with the default
\* secret and compared, and a token signed otherwise is refused.
VerifyPartsSigned(header, payload, signature) ==
  IF ~Truthy(header) \/ ~Truthy(payload) \/ ~Truthy(signature)
  THEN Returned(Null)
  ELSE IF signature.s # createHmac("test-secret-key", header.s \o "." \o payload.s)
  THEN Returned(Null)
  ELSE Decoded(JSON_parse(StringOf(Base64Decode(payload.s))))

\* The try block of verifyToken, from the destructured parts on.
VerifyParts(header, payload, signature) ==
  IF ~Truthy(header) \/ ~Truthy(payload) \/ ~Truthy(signature)
  THEN Returned(Null)
  ELSE Decoded(JSON_parse(StringOf(Base64Decode(payload.s))))

\* The try block of verifyToken: token.split throws a TypeError unless token
\* is a string; const [header, payload, signature] = parts.
VerifyBody(token) ==
  IF token.t # "string" THEN Thrown("TypeError")
  ELSE VerifyParts(Element(split(token.s, "."), 1),
                   Element(split(token.s, "."), 2),
                   Element(split(token.s, "."), 3))

\* Faulty variant of VerifyCatch: no catch block, the exception of the try
\* block reaches the caller.
VerifyNoCatch(body) ==
  [threw |-> body.threw, ret |-> IF body.threw THEN Undefined ELSE body.ret,
   log |-> <<>>]

\* Faulty variant of VerifyCatch: the exception is swallowed without the
\* console.error entry.
VerifyCatchSilent(body) ==
  [threw |-> FALSE, ret |-> IF body.threw THEN Null ELSE body.ret, log |-> <<>>]

\* The catch block of verifyToken: log, and return null.
VerifyCatch(body) ==
  IF body.threw
  THEN [threw |-> FALSE, ret |-> Null,
        log |-> <<[text |-> "Token verification error:", error |-> body.error]>>]
  ELSE [threw |-> FALSE, ret |-> body.ret, log |-> <<>>]

\* verifyToken(token): the outcome and the console.error entries it wrote.
verifyToken(token) == VerifyCatch(VerifyBody(token))

(***************************************************************************)
(* server/src/middleware/auth.js                                           *)
(***************************************************************************)
\* What a call of authMiddleware has done so far: req.user, the responses
\* sent through res.status(..).json(..), the calls of next and of
\* verifyToken, the console.error entries, and whether an exception is in
\* flight.
GateStart(req) ==
  [user |-> req.user, sent |-> <<>>, nextCalls |-> 0, verifyCalls |-> 0,
   log |-> <<>>, threw |-> FALSE]

\* res.status(401).json({ error: message })
Send401(e, message) ==
  [e EXCEPT !.sent = Append(@, [status |-> 401, error |-> message])]

\* next(): the downstream handler runs, and returns or throws.
CallNext(e, nxt) ==
  [e EXCEPT !.nextCalls = @ + 1, !.threw = (nxt = "throws")]

\* Faulty variant of GateDecide: only an undefined result is denied
\* (decoded === undefined), so null passes.
GateDecideUndefinedOnly(e, v, nxt) ==
  IF v.ret = Undefined THEN Send401(e, "Invalid token")
  ELSE CallNext([e EXCEPT !.user = v.ret], nxt)

\* After verifyToken returned v: deny a falsy result, else attach and go on.
GateDecide(e, v, nxt) ==
  IF ~Truthy(v.ret) THEN Send401(e, "Invalid token")
  ELSE CallNext([e EXCEPT !.user = v.ret], nxt)

\* const decoded = verifyToken(token)
GateVerify(e, v, nxt) ==
  GateDecide([e EXCEPT !.verifyCalls = @ + 1, !.log = @ \o v.log], v, nxt)

\* Faulty variant of GateHeader: the scheme is matched without its trailing
\* space (startsWith('Bearer')).
GateHeaderNoSpace(e, authHeader, nxt) ==
  IF ~Truthy(authHeader)
  THEN Send401(e, "Missing or invalid authorization header")
  ELSE IF authHeader.t # "string" THEN [e EXCEPT !.threw = TRUE]
  ELSE IF ~startsWith(authHeader.s, "Bearer")
  THEN Send401(e, "Missing or invalid authorization header")
  ELSE GateVerify(e, verifyToken(JsString(slice(authHeader.s, 7))), nxt)

\* The try block of authMiddleware, from the header read on.
GateHeader(e, authHeader, nxt) ==
  IF ~Truthy(authHeader)
  THEN Send401(e, "Missing or invalid authorization header")
  ELSE IF authHeader.t # "string" THEN [e EXCEPT !.threw = TRUE]
  ELSE IF ~startsWith(authHeader.s, "Bearer ")
  THEN Send401(e, "Missing or invalid authorization header")
  ELSE GateVerify(e, verifyToken(JsString(slice(authHeader.s, 7))), nxt)

\* The try block of authMiddleware: reading req.headers.authorization throws
\* a TypeError when req.headers is undefined.
GateTry(req, nxt) ==
  IF NoProperties(req.headers) THEN [GateStart(req) EXCEPT !.threw = TRUE]
  ELSE GateHeader(GateStart(req), Get(req.headers, "authorization"), nxt)

\* The catch block of authMiddleware: answer 401.
GateCatch(e) ==
  IF e.threw THEN Send401([e EXCEPT !.threw = FALSE], "Authentication failed")
  ELSE e

\* authMiddleware(req, res, next): the catch block answers any exception of
\* the try block, the downstream handler's included.
authMiddleware(req, nxt) == GateCatch(GateTry(req, nxt))

(***************************************************************************)
(* server/src/middleware/errorHandler.js                                   *)
(***************************************************************************)
\* The response body: the stack is added outside production when the error
\* has one.
\* Faulty variant of ErrorBody: the stack is sent in production too.
ErrorBodyWithStack(err, nodeEnv) ==
  IF Truthy(Get(err, "stack"))
  THEN JsObject(<<Prop("error", Or(Get(err, "message"),
                                   JsString("Internal Server Error"))),
                  Prop("stack", Get(err, "stack"))>>)
  ELSE JsObject(<<Prop("error", Or(Get(err, "message"),
                                   JsString("Internal Server Error")))>>)

ErrorBody(err, nodeEnv) ==
  IF nodeEnv # JsString("production") /\ Truthy(Get(err, "stack"))
  THEN JsObject(<<Prop("error", Or(Get(err, "message"),
                                   JsString("Internal Server Error"))),
                  Prop("stack", Get(err, "stack"))>>)
  ELSE JsObject(<<Prop("error", Or(Get(err, "message"),
                                   JsString("Internal Server Error")))>>)

\* Faulty variant of errorHandler: the status of the error is ignored.
errorHandlerAlways500(err, nodeEnv) ==
  IF NoProperties(err)
  THEN [threw |-> TRUE, sent |-> <<>>, log |-> <<err>>]
  ELSE [threw |-> FALSE,
        sent |-> <<[status |-> JsNumber(500), body |-> ErrorBody(err, nodeEnv)]>>,
        log |-> <<err>>]

\* errorHandler(err, req, res, next) with process.env.NODE_ENV = nodeEnv:
\* console.error(err), then res.status(err.status || 500).json(response).
\* Reading err.status of null or undefined throws a TypeError.
errorHandler(err, nodeEnv) ==
  IF NoProperties(err)
  THEN [threw |-> TRUE, sent |-> <<>>, log |-> <<err>>]
  ELSE [threw |-> FALSE,
        sent |-> <<[status |-> Or(Get(err, "status"), JsNumber(500)),
                    body |-> ErrorBody(err, nodeEnv)]>>,
        log |-> <<err>>]

(***************************************************************************)
(* Inputs.                                                                 *)
(***************************************************************************)
\* The user records handed to generateToken.
Users ==
  { JsObject(<<Prop("_id", JsString("u1")), Prop("email", JsString("a@b.com")),
               Prop("username", JsString("alice"))>>),
    JsObject(<<Prop("id", JsString("u2")), Prop("email", JsString("b@c.io")),
               Prop("username", JsString("bob"))>>),
    JsObject(<<Prop("_id", JsString("u1")), Prop("id", JsString("u2")),
               Prop("email", JsString("a@b.com")),
               Prop("username", JsString("alice"))>>),
    JsObject(<<Prop("_id", JsString("")), Prop("id", JsString("u2")),
               Prop("email", JsString("b@c.io")),
               Prop("username", JsString("bob"))>>),
    JsObject(<<Prop("_id", JsString("x.y")), Prop("email", JsString("q\"t@b")),
               Prop("username", JsString("a\\b c"))>>),
    JsObject(<<Prop("_id", JsString("u1")),
               Prop("username", JsString("alice"))>>),
    JsObject(<<Prop("email", JsString("a@b.com")),
               Prop("username", JsString("alice"))>>),
    JsObject(<<>>),
    JsNumber(7),
    Null,
    Undefined }

\* Values of process.env.JWT_SECRET.
Secrets == {Undefined, JsString("s3cret")}

\* A token whose payload segment is base64 of `text`.
Forge(text) == "h." \o Base64Encode(BytesOf(text)) \o ".s"

\* Token strings no generateToken call produced.
ForeignTokens ==
  { "", "invalid", "two.parts", "a..c", ".b.c", "a.b.", "a.b.c.d",
    "invalid.token.here", "header.!!!invalid-base64!!!.signature",
    Forge("not-json"), Forge("0"), Forge("null"), Forge("{}"),
    Forge("{\"id\":\"u9\"}"), Forge("{\"id\":\"u9\"}") \o ".extra" }

\* The payload segment of a token kept, under another header and signature.
Resign(token) == "x." \o split(token, ".")[2] \o ".y"

\* What a client can make of a token it holds.
Variants(token) == {token, Resign(token), token \o ".extra"}

\* Values of req.headers.authorization that carry no bearer token.
OtherAuthorizations ==
  {Undefined, Null, JsNumber(123), JsBoolean(TRUE)}
    \cup {JsString(s) : s \in {"", "Basic xyz", "bearer x", "Bearer",
                               "BEARER x", "InvalidFormat token123"}}

\* A request: req.headers (undefined when the object is missing) and req.user.
Request(headers) == [headers |-> headers, user |-> Undefined]

\* What the downstream handler does when next() runs it.
NextBehaviours == {"returns", "throws"}

Clock == 0..MaxClock

\* An error object with these properties.
ErrorWith(props) == JsObject(props)

\* The values errorHandler is called with.
Errors ==
  { ErrorWith(<<Prop("message", JsString("Validation failed")),
                Prop("status", JsNumber(400)),
                Prop("stack", JsString("Error: Validation failed"))>>),
    ErrorWith(<<Prop("message", JsString("Internal error")),
                Prop("stack", JsString("Error: Internal error"))>>),
    ErrorWith(<<Prop("message", JsString("")), Prop("status", JsNumber(503)),
                Prop("stack", JsString("Error"))>>),
    ErrorWith(<<Prop("status", JsNumber(422))>>),
    ErrorWith(<<Prop("message", JsString("Unknown")),
                Prop("stack", JsString(""))>>),
    ErrorWith(<<Prop("message", JsString("Timeout")),
                Prop("status", JsNumber(0))>>),
    ErrorWith(<<>>),
    JsString("failed"),
    Null,
    Undefined }

\* Every token generateToken returns in this model.
AllTokens ==
  { generateToken(u, e, t).ret.s :
      u \in {x \in Users : ~NoProperties(x)}, e \in Secrets, t \in Clock }

\* Every token string of this model.
AllTokenStrings == ForeignTokens \cup UNION {Variants(t) : t \in AllTokens}

\* generateToken, verifyToken and authMiddleware are functions of their
\* arguments (and of the secret and the clock): tabulated once over the
\* inputs of this model.
GenerateTokenTable ==
  [u \in Users, e \in Secrets, t \in Clock |-> generateToken(u, e, t)]

VerifyTokenTable ==
  [x \in {Null, Undefined, JsNumber(123)}
           \cup {JsString(s) : s \in AllTokenStrings} |-> verifyToken(x)]

AuthMiddlewareTable ==
  [req \in {Request(Undefined)}
             \cup {Request(JsObject(<<Prop("authorization", a)>>)) :
                     a \in OtherAuthorizations
                             \cup {JsString("Bearer " \o s) :
                                     s \in AllTokenStrings}},
   nxt \in NextBehaviours |-> authMiddleware(req, nxt)]

\* The fields of the form useForm is used for, with their initial values,
\* and the keys its errors object can get: the fields and 'form'.
initialValues == [email |-> JsString(""), agree |-> JsBoolean(FALSE)]
ErrorKeys == DOMAIN initialValues \cup {"form"}

VARIABLES
  now,         \* Math.floor(Date.now() / 1000)
  JWT_SECRET,  \* process.env.JWT_SECRET
  issued,      \* the token a client holds, with the user it was issued for
  last,        \* the last call made and its outcome
  inflight,    \* the requests on their way through the server, by slot
  posts,       \* the posts collection, by position of the _id in PostIds
  bugs,        \* the bugs collection, by position of the _id in BugIds
  form         \* the state of a component that uses the useForm hook

vars == <<now, JWT_SECRET, issued, last, inflight, posts, bugs, form>>

\* The slots of requests in flight.
Slots == 1..MaxInFlight

\* The _id values the database assigns to new posts and to new bugs, in
\* the order it assigns them.
PostIds == <<"64b000000000000000000001">>
BugIds == <<"64c000000000000000000001">>

\* A document slot of a collection: never used, or deleted; a stored
\* document has st = "stored" and its fields.
Unused == [st |-> "unused"]
Deleted == [st |-> "deleted"]

\* The token strings a caller can present in the current state.
Presentable ==
  ForeignTokens \cup (IF issued.held THEN Variants(issued.token) ELSE {})

\* The arguments verifyToken can be called with in the current state.
TokenInputs ==
  {Null, Undefined, JsNumber(123)} \cup {JsString(s) : s \in Presentable}

\* The requests that can arrive in the current state.
Requests ==
  {Request(Undefined)}
    \cup {Request(JsObject(<<Prop("authorization", a)>>)) :
            a \in OtherAuthorizations
                    \cup {JsString("Bearer " \o s) : s \in Presentable}}

Init ==
  /\ now = 0
  /\ JWT_SECRET \in Secrets
  /\ issued = [held |-> FALSE]
  /\ last = [op |-> "none"]
  /\ inflight = [slot \in Slots |-> [st |-> "free"]]
  /\ posts = [i \in DOMAIN PostIds |-> Unused]
  /\ bugs = [i \in DOMAIN BugIds |-> Unused]
  /\ form = [values |-> initialValues, errors |-> [k \in ErrorKeys |-> Undefined],
             isSubmitting |-> FALSE,
             next |-> [values |-> initialValues,
                       errors |-> [k \in ErrorKeys |-> Undefined],
                       isSubmitting |-> FALSE],
             pending |-> 0]

\* Time passes.
Tick ==
  /\ now < MaxClock
  /\ now' = now + 1
  /\ UNCHANGED <<JWT_SECRET, issued, last, inflight, posts, bugs, form>>

\* The token the client holds after generateToken(user) ended as r: it keeps
\* the first token it gets.
Keep(user, r) ==
  IF ~r.threw /\ ~issued.held
  THEN [held |-> TRUE, user |-> user, at |-> now, token |-> r.ret.s]
  ELSE issued

Generated(user, r) ==
  /\ last' = [op |-> "generateToken", user |-> user, at |-> now, out |-> r]
  /\ issued' = Keep(user, r)
  /\ UNCHANGED <<now, JWT_SECRET, inflight, posts, bugs, form>>

\* generateToken(user) is called.
GenerateToken(user) == Generated(user, GenerateTokenTable[user, JWT_SECRET, now])

\* Faulty variant of VerifyToken: claims issued before the current second
\* are treated as expired and refused.
VerifyTokenExpiring(token) ==
  /\ last' = [op |-> "verifyToken", token |-> token,
              out |-> IF /\ VerifyTokenTable[token].ret.t = "object"
                         /\ Get(VerifyTokenTable[token].ret, "iat").t = "number"
                         /\ Get(VerifyTokenTable[token].ret, "iat").n < now
                      THEN [threw |-> FALSE, ret |-> Null, log |-> <<>>]
                      ELSE VerifyTokenTable[token]]
  /\ UNCHANGED <<now, JWT_SECRET, issued, inflight, posts, bugs, form>>

\* verifyToken(token) is called.
VerifyToken(token) ==
  /\ last' = [op |-> "verifyToken", token |-> token, out |-> VerifyTokenTable[token]]
  /\ UNCHANGED <<now, JWT_SECRET, issued, inflight, posts, bugs, form>>

\* A request passes through authMiddleware.
AuthMiddleware(req, nxt) ==
  /\ last' = [op |-> "authMiddleware", req |-> req, nxt |-> nxt,
              out |-> AuthMiddlewareTable[req, nxt]]
  /\ UNCHANGED <<now, JWT_SECRET, issued, inflight, posts, bugs, form>>

\* An error reaches errorHandler.
ErrorHandler(err, nodeEnv) ==
  /\ last' = [op |-> "errorHandler", err |-> err, nodeEnv |-> nodeEnv,
              out |-> errorHandler(err, nodeEnv)]
  /\ UNCHANGED <<now, JWT_SECRET, issued, inflight, posts, bugs, form>>

(***************************************************************************)
(* client/src/utils/api.js: apiRequest.                                    *)
(***************************************************************************)
\* { ...props, ...source }: the properties of source are set in turn; the
\* spread of undefined or null adds nothing.
RECURSIVE Spread(_, _)
Spread(props, source) ==
  IF source = << >> THEN props
  ELSE Spread(SetProp(props, Head(source).k, Head(source).v), Tail(source))

\* The config apiRequest hands to fetch: the default headers, with
\* Authorization when localStorage holds a token, then
\* { method, headers: { ...defaultHeaders, ...options.headers }, ...options },
\* then the body.
FetchConfig(method, body, options, token) ==
  JsObject(
    Spread(
      Spread(<<Prop("method", method),
               Prop("headers",
                    JsObject(Spread(
                      IF Truthy(token)
                      THEN <<Prop("Content-Type", JsString("application/json")),
                             Prop("Authorization",
                                  JsString("Bearer " \o token.s))>>
                      ELSE <<Prop("Content-Type",
                                  JsString("application/json"))>>,
                      IF Get(options, "headers").t = "object"
                      THEN Get(options, "headers").o ELSE << >>)))>>,
             options.o),
      IF Truthy(body)
      THEN <<Prop("body", JsString(JSON_stringify(body)))>> ELSE << >>))

\* apiRequest(url, method, body, options) with the token localStorage holds
\* and the way fetch answers: the config fetch was called with, and the
\* promise's outcome.
apiRequest(method, body, options, token, response) ==
  [fetched |-> <<FetchConfig(method, body, options, token)>>,
   out |->
     IF response.kind = "rejects" THEN Thrown(response.error)
     ELSE IF response.ok
     THEN (IF response.json.threw THEN Thrown(response.json.error)
           ELSE Returned(response.json.ret))
     ELSE Thrown(ErrorWith(
            <<Prop("message",
                   JsString("API Error: " \o NatToString(response.status))),
              Prop("status", JsNumber(response.status)),
              Prop("data",
                   IF response.json.threw
                   THEN JsObject(<<Prop("error",
                                        JsString(response.statusText))>>)
                   ELSE response.json.ret)>>))]

\* apiRequest is called: with or without a token in localStorage, with
\* options that carry nothing, headers of their own, an override of a default
\* header, or other fetch options, and with fetch answering in each way.
ApiRequest ==
  \E token \in {Null, JsString(""), JsString("abc")},
     body \in {Null, JsObject(<<Prop("title", JsString("Bug"))>>)},
     options \in
       { JsObject(<< >>),
         JsObject(<<Prop("credentials", JsString("include"))>>),
         JsObject(<<Prop("headers",
                         JsObject(<<Prop("X-Request-Id", JsString("7"))>>))>>),
         JsObject(<<Prop("headers",
                         JsObject(<<Prop("Content-Type",
                                         JsString("text/plain"))>>))>>),
         JsObject(<<Prop("headers",
                         JsObject(<<Prop("Authorization",
                                         JsString("Basic eA=="))>>))>>) },
     response \in
       { [kind |-> "rejects", error |-> JsString("Network error")],
         [kind |-> "response", ok |-> TRUE, status |-> 200, statusText |-> "OK",
          json |-> Returned(JsObject(<<Prop("id", JsNumber(1))>>))],
         [kind |-> "response", ok |-> FALSE, status |-> 400,
          statusText |-> "Bad Request",
          json |-> Returned(JsObject(<<Prop("error", JsString("Invalid"))>>))],
         [kind |-> "response", ok |-> FALSE, status |-> 500,
          statusText |-> "Internal Server Error",
          json |-> Thrown(JsString("Not JSON"))] } :
    /\ last' = [op |-> "apiRequest", token |-> token, options |-> options,
                out |-> apiRequest(JsString("POST"), body, options, token,
                                   response)]
    /\ UNCHANGED <<now, JWT_SECRET, issued, inflight, posts, bugs, form>>

(***************************************************************************)
(* utils/validation.js: sanitizeInput.                                     *)
(***************************************************************************)
\* The characters the regular expression \s matches and trim() removes, on
\* ASCII.
IsSpace(c) == c \in {" ", "\t", "\n", "\r", "\f"}

\* String.prototype.trim
trim(str) ==
  LET inked == {i \in 1..Len(str) : ~IsSpace(CharAt(str, i))}
  IN IF inked = {} THEN ""
     ELSE SubSeq(str, CHOOSE i \in inked : \A j \in inked : i <= j,
                      CHOOSE i \in inked : \A j \in inked : j <= i)

\* sanitizeInput(input): '' for what is no string, else
\* input.trim().replace(/[<>]/g, '')
sanitizeInput(input) ==
  IF input.t # "string" THEN JsString("")
  ELSE JsString(Join([i \in 1..Len(trim(input.s)) |->
                        IF CharAt(trim(input.s), i) \in {"<", ">"} THEN ""
                        ELSE CharAt(trim(input.s), i)]))

\* sanitizeInput is called, with strings and with other values.
SanitizeInput ==
  \E input \in
       { JsString("  hello world  "), JsString("hello <script>"),
         JsString("<b>bold</b>"), JsString("a<>b"), JsString("> quoted"),
         JsString("ends with <br> "), JsString(""), JsString(" \t "),
         JsNumber(7), Null, Undefined,
         JsObject(<<Prop("toString", JsString("<i>"))>>) } :
    /\ last' = [op |-> "sanitizeInput", input |-> input,
                out |-> sanitizeInput(input)]
    /\ UNCHANGED <<now, JWT_SECRET, issued, inflight, posts, bugs, form>>

Next ==
  \/ Tick
  \/ \E user \in Users : GenerateToken(user)
  \/ \E token \in TokenInputs : VerifyToken(token)
  \/ \E req \in Requests, nxt \in NextBehaviours : AuthMiddleware(req, nxt)
  \/ \E err \in Errors,
        nodeEnv \in {Undefined, JsString("production"),
                     JsString("development"), JsString("Production")} :
       ErrorHandler(err, nodeEnv)
  \/ ApiRequest
  \/ SanitizeInput

Spec == Init /\ [][Next]_vars

(***************************************************************************)
(* Requests passing through the gate concurrently.  authMiddleware is      *)
(* synchronous: a call runs from entry to return without yielding, so the  *)
(* calls of concurrent requests interleave as wholes, in any order.        *)
(***************************************************************************)
\* The requests that arrive concurrently.
ConcurrentRequests ==
  {Request(JsObject(<<Prop("authorization", a)>>)) :
     a \in {Undefined, JsString("Basic xyz")}
             \cup {JsString("Bearer " \o t) :
                     t \in {"invalid.token.here", Forge("{}"),
                            Forge("{\"id\":\"u9\"}")}}}

\* A request arrives and waits for the event loop to run its middleware.
Arrive(slot, req, nxt) ==
  /\ inflight[slot].st = "free"
  /\ inflight' = [inflight EXCEPT
                    ![slot] = [st |-> "waiting", req |-> req, nxt |-> nxt]]
  /\ UNCHANGED <<now, JWT_SECRET, issued, last, posts, bugs, form>>

\* Faulty variant of GateOutcome: the header is kept in a variable of the
\* module, shared by the calls: the call reads the request of the first slot
\* in flight.
GateOutcomeShared(slot) ==
  LET first == CHOOSE a \in Slots :
                 /\ inflight[a].st # "free"
                 /\ \A b \in Slots : inflight[b].st # "free" => a <= b
  IN AuthMiddlewareTable[inflight[first].req, inflight[slot].nxt]

\* What authMiddleware does with the request of a slot: it reads only its
\* own req, res and next.
GateOutcome(slot) ==
  AuthMiddlewareTable[inflight[slot].req, inflight[slot].nxt]

\* The event loop runs authMiddleware for a waiting request.
Handle(slot) ==
  /\ inflight[slot].st = "waiting"
  /\ inflight' = [inflight EXCEPT
                    ![slot] = [st |-> "done", req |-> inflight[slot].req,
                               nxt |-> inflight[slot].nxt,
                               out |-> GateOutcome(slot)]]
  /\ UNCHANGED <<now, JWT_SECRET, issued, last, posts, bugs, form>>

\* The request is over.
Leave(slot) ==
  /\ inflight[slot].st = "done"
  /\ inflight' = [inflight EXCEPT ![slot] = [st |-> "free"]]
  /\ UNCHANGED <<now, JWT_SECRET, issued, last, posts, bugs, form>>

NextConcurrent ==
  \/ \E slot \in Slots, req \in ConcurrentRequests, nxt \in NextBehaviours :
       Arrive(slot, req, nxt)
  \/ \E slot \in Slots : Handle(slot)
  \/ \E slot \in Slots : Leave(slot)

ConcurrentSpec == Init /\ [][NextConcurrent]_vars

(***************************************************************************)
(* Routes behind the gate.  A route handler is an async function: next()   *)
(* starts it and returns, and the handler yields at each await, where the  *)
(* handlers of other requests can run.                                     *)
(***************************************************************************)
\* String.prototype.toLowerCase, on ASCII.
toLowerCase(str) ==
  Join([i \in 1..Len(str) |->
          IF IndexIn("ABCDEFGHIJKLMNOPQRSTUVWXYZ", CharAt(str, i)) > 0
          THEN CharAt("abcdefghijklmnopqrstuvwxyz",
                      IndexIn("ABCDEFGHIJKLMNOPQRSTUVWXYZ", CharAt(str, i)))
          ELSE CharAt(str, i)])

\* A value mongoose casts to an ObjectId: a string of 24 hexadecimal digits.
IsObjectIdString(x) ==
  /\ x.t = "string"
  /\ Len(x.s) = 24
  /\ \A i \in 1..Len(x.s) :
       IndexIn("0123456789abcdef", toLowerCase(CharAt(x.s, i))) > 0

\* The users that call the routes, by _id.
UserA == "507f1f77bcf86cd799439011"
UserB == "507f1f77bcf86cd799439012"

\* The token generateToken issued for a user.
TokenOf(id) ==
  generateToken(JsObject(<<Prop("_id", JsString(id)),
                           Prop("email", JsString("a@b.com")),
                           Prop("username", JsString("alice"))>>),
                Undefined, 0).ret.s

\* The Authorization headers of the callers: none, the two users', and a
\* token whose payload {} names nobody.
RouteCallers ==
  {Undefined, JsString("Bearer h.e30=.s")}
    \cup {JsString("Bearer " \o TokenOf(id)) : id \in {UserA, UserB}}

\* authMiddleware in front of an async handler: next() returns.
RouteGateTable ==
  [a \in RouteCallers |->
     authMiddleware(Request(JsObject(<<Prop("authorization", a)>>)), "returns")]

\* The position of an _id in the ids of a collection, 0 when it has none.
IndexOf(ids, id) ==
  IF \E i \in DOMAIN ids : ids[i] = id
  THEN CHOOSE i \in DOMAIN ids : ids[i] = id ELSE 0

\* Model.findById(id): the stored document, or null.
FindById(coll, ids, id) ==
  IF IndexOf(ids, id) > 0 /\ coll[IndexOf(ids, id)].st = "stored"
  THEN coll[IndexOf(ids, id)] ELSE Deleted

\* The status errorHandler answers with when a handler calls next(error)
\* with an error of the database layer, which carries no status.
DatabaseError(message) ==
  errorHandler(ErrorWith(<<Prop("message", JsString(message))>>),
               Undefined).sent[1].status.n

\* A request that was answered: its route, caller and status.
Answered(route, a, status) ==
  [st |-> "done", route |-> route, auth |-> a, status |-> status]

\* The request of a slot is answered.
Answer(slot, status) ==
  inflight' = [inflight EXCEPT
                 ![slot] = Answered(inflight[slot].route, inflight[slot].auth,
                                    status)]

\* Faulty variant of Enter: the handler runs whatever the gate decided.
EnterUngated(slot, route, a, id, body, st, status) ==
  /\ inflight[slot].st = "free"
  /\ inflight' = [inflight EXCEPT
       ![slot] = IF st = "done" THEN Answered(route, a, status)
                 ELSE [st |-> st, route |-> route, auth |-> a, id |-> id,
                       body |-> body, user |-> RouteGateTable[a].user,
                       doc |-> Unused]]

\* A request enters a route behind authMiddleware: the gate answers 401, or
\* attaches req.user and starts the handler, which runs to its first await
\* (st) or to its answer (st = "done", status).
Enter(slot, route, a, id, body, st, status) ==
  /\ inflight[slot].st = "free"
  /\ inflight' = [inflight EXCEPT
       ![slot] = IF RouteGateTable[a].nextCalls = 0
                 THEN Answered(route, a, RouteGateTable[a].sent[1].status)
                 ELSE IF st = "done" THEN Answered(route, a, status)
                 ELSE [st |-> st, route |-> route, auth |-> a, id |-> id,
                       body |-> body, user |-> RouteGateTable[a].user,
                       doc |-> Unused]]

\* The handlers of the slot's route: where the slot stands.
At(slot, route, st) ==
  inflight[slot].st = st /\ inflight[slot].route = route

(***************************************************************************)
(* app.js: the post routes.                                                *)
(***************************************************************************)
\* Faulty variant of IsAuthor: any authenticated caller passes.
IsAuthorAnyone(doc, user) == TRUE

\* post.author.toString() === req.user.id
IsAuthor(doc, user) == JsString(doc.author) = Get(user, "id")

\* POST /api/posts: the gate, then the check of the required fields; the
\* content of these requests is always given.
CreatePost(slot, a, title) ==
  /\ Enter(slot, "POST /api/posts", a, "", [title |-> title],
           IF Truthy(title) THEN "creating" ELSE "done",
           IF Truthy(title) THEN 0 ELSE 400)
  /\ UNCHANGED <<now, JWT_SECRET, issued, last, posts, bugs, form>>

\* The slug of a new post, title.toLowerCase().replace(/\s+/g, '-'): each
\* run of whitespace becomes one dash.
SlugOf(title) ==
  Join([i \in 1..Len(title) |->
          IF ~IsSpace(CharAt(title, i)) THEN toLowerCase(CharAt(title, i))
          ELSE IF i > 1 /\ IsSpace(CharAt(title, i - 1)) THEN ""
          ELSE "-"])

\* The positions of the collection no document has used yet.
FreeIn(coll) == {i \in DOMAIN coll : coll[i].st = "unused"}

\* await Post.create(...) is over: 201 with the post, or next(error) when
\* Post.create rejects: the author is no ObjectId, or the slug is taken.
PostCreated(slot) ==
  /\ At(slot, "POST /api/posts", "creating")
  /\ IF \/ ~IsObjectIdString(Get(inflight[slot].user, "id"))
        \/ \E i \in DOMAIN posts :
             /\ posts[i].st = "stored"
             /\ posts[i].slug = SlugOf(inflight[slot].body.title.s)
     THEN /\ Answer(slot, DatabaseError("Post validation failed"))
          /\ UNCHANGED posts
     ELSE /\ FreeIn(posts) # {}
          /\ posts' = [posts EXCEPT
               ![CHOOSE i \in FreeIn(posts) : \A j \in FreeIn(posts) : i <= j] =
                 [st |-> "stored",
                  author |-> toLowerCase(Get(inflight[slot].user, "id").s),
                  title |-> inflight[slot].body.title.s,
                  content |-> "Text",
                  slug |-> SlugOf(inflight[slot].body.title.s)]]
          /\ Answer(slot, 201)
  /\ UNCHANGED <<now, JWT_SECRET, issued, last, bugs, form>>

\* PUT /api/posts/:id: the gate, then Post.findById is awaited.
PutPost(slot, a, id, title) ==
  /\ Enter(slot, "PUT /api/posts/:id", a, id, [title |-> title], "finding", 0)
  /\ UNCHANGED <<now, JWT_SECRET, issued, last, posts, bugs, form>>

\* DELETE /api/posts/:id: the gate, then Post.findById is awaited.
DeletePost(slot, a, id) ==
  /\ Enter(slot, "DELETE /api/posts/:id", a, id, [title |-> Undefined],
           "finding", 0)
  /\ UNCHANGED <<now, JWT_SECRET, issued, last, posts, bugs, form>>

\* await Post.findById(req.params.id) is over, in the PUT or the DELETE
\* handler: a malformed id is a CastError, no post is 404, another author's
\* post is 403; else the handler goes on to its write.
PostFound(slot, route, write) ==
  /\ At(slot, route, "finding")
  /\ IF ~IsObjectIdString(JsString(inflight[slot].id))
     THEN Answer(slot, DatabaseError("Cast to ObjectId failed"))
     ELSE IF FindById(posts, PostIds, inflight[slot].id).st # "stored"
     THEN Answer(slot, 404)
     ELSE IF ~IsAuthor(FindById(posts, PostIds, inflight[slot].id),
                       inflight[slot].user)
     THEN Answer(slot, 403)
     ELSE inflight' = [inflight EXCEPT
            ![slot] = [@ EXCEPT
                         !.st = write,
                         !.doc = FindById(posts, PostIds, inflight[slot].id)]]
  /\ UNCHANGED <<now, JWT_SECRET, issued, last, posts, bugs, form>>

\* await post.save() is over: the title is written (title || post.title),
\* unless the post was deleted meanwhile, which save reports as an error.
PutPostSaved(slot) ==
  /\ At(slot, "PUT /api/posts/:id", "saving")
  /\ IF posts[IndexOf(PostIds, inflight[slot].id)].st # "stored"
     THEN /\ Answer(slot, DatabaseError("No document found"))
          /\ UNCHANGED posts
     ELSE /\ posts' = [posts EXCEPT
               ![IndexOf(PostIds, inflight[slot].id)].title =
                  Or(inflight[slot].body.title,
                     JsString(inflight[slot].doc.title)).s]
          /\ Answer(slot, 200)
  /\ UNCHANGED <<now, JWT_SECRET, issued, last, bugs, form>>

\* await Post.findByIdAndDelete(req.params.id) is over.
DeletePostDeleted(slot) ==
  /\ At(slot, "DELETE /api/posts/:id", "deleting")
  /\ posts' = [posts EXCEPT ![IndexOf(PostIds, inflight[slot].id)] = Deleted]
  /\ Answer(slot, 200)
  /\ UNCHANGED <<now, JWT_SECRET, issued, last, bugs, form>>

NextPosts ==
  \/ \E slot \in Slots, a \in RouteCallers,
        title \in {Undefined, JsString("First Post")} :
       CreatePost(slot, a, title)
  \/ \E slot \in Slots : PostCreated(slot)
  \/ \E slot \in Slots, a \in RouteCallers,
        id \in {PostIds[1], "64b0000000000000000000ff", "abc"},
        title \in {Undefined, JsString("Second")} :
       PutPost(slot, a, id, title)
  \/ \E slot \in Slots : PostFound(slot, "PUT /api/posts/:id", "saving")
  \/ \E slot \in Slots : PutPostSaved(slot)
  \/ \E slot \in Slots, a \in RouteCallers,
        id \in {PostIds[1], "64b0000000000000000000ff", "abc"} :
       DeletePost(slot, a, id)
  \/ \E slot \in Slots :
       PostFound(slot, "DELETE /api/posts/:id", "deleting")
  \/ \E slot \in Slots : DeletePostDeleted(slot)
  \/ \E slot \in Slots : Leave(slot)

\* The routes run with the default secret.
InitRoutes == Init /\ JWT_SECRET = Undefined

PostSpec == InitRoutes /\ [][NextPosts]_vars

(***************************************************************************)
(* routes/bugs.js: the bug routes, mounted at /api/bugs.  A stored bug is  *)
(* followed in its status, priority, reportedBy, resolvedAt and the        *)
(* authors of its comments.  The populate calls that follow a write only   *)
(* read the users and are part of the step of that write.                  *)
(***************************************************************************)
MaxComments == 1

\* The ids a request can name: the ids of the collection, which name no bug
\* before it is created and after it is deleted, and a malformed one.
BugTargets == {BugIds[i] : i \in DOMAIN BugIds} \cup {"abc"}

\* isValidObjectId(id): /^[a-f\d]{24}$/i
isValidObjectId(id) == IsObjectIdString(JsString(id))

\* The bug the slot's request names, as stored now.
Target(slot) == IndexOf(BugIds, inflight[slot].id)

\* POST /api/bugs: the gate, then the checks of the title; the description
\* of these requests is always given and long enough.
CreateBug(slot, a, title, priority) ==
  /\ Enter(slot, "POST /api/bugs", a, "",
           [title |-> title, priority |-> priority],
           IF ~Truthy(title) \/ Len(title.s) < 5 THEN "done" ELSE "creating",
           400)
  /\ UNCHANGED <<now, JWT_SECRET, issued, last, posts, bugs, form>>

\* await Bug.create(...) is over: 201 with the bug, or next(error) when
\* Bug.create rejects: reportedBy is no ObjectId, or the priority is none of
\* the schema's.
BugCreated(slot) ==
  /\ At(slot, "POST /api/bugs", "creating")
  /\ IF \/ ~IsObjectIdString(Get(inflight[slot].user, "id"))
        \/ Or(inflight[slot].body.priority, JsString("medium")).s
             \notin {"low", "medium", "high", "critical"}
     THEN /\ Answer(slot, DatabaseError("Bug validation failed"))
          /\ UNCHANGED bugs
     ELSE /\ FreeIn(bugs) # {}
          /\ bugs' = [bugs EXCEPT
               ![CHOOSE i \in FreeIn(bugs) : \A j \in FreeIn(bugs) : i <= j] =
                 [st |-> "stored",
                  status |-> "open",
                  priority |->
                    Or(inflight[slot].body.priority, JsString("medium")).s,
                  reportedBy |-> toLowerCase(Get(inflight[slot].user, "id").s),
                  resolvedAt |-> Null,
                  comments |-> << >>]]
          /\ Answer(slot, 201)
  /\ UNCHANGED <<now, JWT_SECRET, issued, last, posts, form>>

\* GET /api/bugs: no gate; Bug.find is awaited.
GetBugs(slot) ==
  /\ inflight[slot].st = "free"
  /\ inflight' = [inflight EXCEPT
       ![slot] = [st |-> "listing", route |-> "GET /api/bugs",
                  auth |-> Undefined, id |-> "", body |-> << >>,
                  user |-> Undefined, doc |-> Unused]]
  /\ UNCHANGED <<now, JWT_SECRET, issued, last, posts, bugs, form>>

\* await Bug.find(...) is over: 200 with the bugs.
BugsListed(slot) ==
  /\ At(slot, "GET /api/bugs", "listing")
  /\ Answer(slot, 200)
  /\ UNCHANGED <<now, JWT_SECRET, issued, last, posts, bugs, form>>

\* GET /api/bugs/:id: no gate; the check of the id, then Bug.findById.
GetBug(slot, id) ==
  /\ inflight[slot].st = "free"
  /\ inflight' = [inflight EXCEPT
       ![slot] = IF ~isValidObjectId(id)
                 THEN Answered("GET /api/bugs/:id", Undefined, 400)
                 ELSE [st |-> "reading", route |-> "GET /api/bugs/:id",
                       auth |-> Undefined, id |-> id, body |-> << >>,
                       user |-> Undefined, doc |-> Unused]]
  /\ UNCHANGED <<now, JWT_SECRET, issued, last, posts, bugs, form>>

\* await Bug.findById(...) is over: 404, or 200 with the bug.
BugRead(slot) ==
  /\ At(slot, "GET /api/bugs/:id", "reading")
  /\ Answer(slot, IF FindById(bugs, BugIds, inflight[slot].id).st = "stored"
                  THEN 200 ELSE 404)
  /\ UNCHANGED <<now, JWT_SECRET, issued, last, posts, bugs, form>>

\* The bodies of the PUT requests: a status, a status that is none of the
\* three beside a priority, a priority that is none of the four beside a
\* status, and an empty status beside a priority.
PutBodies ==
  {[status |-> JsString("resolved"), priority |-> Undefined],
   [status |-> JsString("in-progress"), priority |-> Undefined],
   [status |-> JsString("closed"), priority |-> JsString("high")],
   [status |-> JsString("resolved"), priority |-> JsString("urgent")],
   [status |-> JsString(""), priority |-> JsString("high")]}

\* Faulty variant of PutBug: the priority is not checked.
PutBugAnyPriority(slot, a, id, body) ==
  /\ Enter(slot, "PUT /api/bugs/:id", a, id, body,
           IF /\ isValidObjectId(id)
              /\ ~(/\ Truthy(body.status)
                   /\ body.status.s \notin {"open", "in-progress", "resolved"})
           THEN "finding" ELSE "done",
           400)
  /\ UNCHANGED <<now, JWT_SECRET, issued, last, posts, bugs, form>>

\* PUT /api/bugs/:id: the gate, the check of the id, the check of the status
\* if (status && ...), the check of the priority if (priority && ...), then
\* Bug.findById is awaited.
PutBug(slot, a, id, body) ==
  /\ Enter(slot, "PUT /api/bugs/:id", a, id, body,
           IF /\ isValidObjectId(id)
              /\ ~(/\ Truthy(body.status)
                   /\ body.status.s \notin {"open", "in-progress", "resolved"})
              /\ ~(/\ Truthy(body.priority)
                   /\ body.priority.s
                        \notin {"low", "medium", "high", "critical"})
           THEN "finding" ELSE "done",
           400)
  /\ UNCHANGED <<now, JWT_SECRET, issued, last, posts, bugs, form>>

\* await Bug.findById(req.params.id) is over, in the PUT or the comment
\* handler: 404, or the handler goes on with the document to its save.  Of
\* the document read, the status and the priority are kept: the handlers use
\* nothing else.
BugFound(slot, route) ==
  /\ At(slot, route, "finding")
  /\ IF FindById(bugs, BugIds, inflight[slot].id).st # "stored"
     THEN Answer(slot, 404)
     ELSE inflight' = [inflight EXCEPT
            ![slot] = [@ EXCEPT
                         !.st = "saving",
                         !.doc = [st |-> "stored",
                                  status |-> FindById(bugs, BugIds,
                                                      inflight[slot].id).status,
                                  priority |-> FindById(bugs, BugIds,
                                                 inflight[slot].id).priority]]]
  /\ UNCHANGED <<now, JWT_SECRET, issued, last, posts, bugs, form>>

\* if (value) bug.path = value, then save: the path is written when the
\* value is truthy and differs from the value the document was read with.
Assigned(current, loaded, value) ==
  IF Truthy(value) /\ value.s # loaded THEN value.s ELSE current

\* Faulty variant of Updated: the bug is attributed to the updating caller.
UpdatedReassigned(stored, doc, body, user, at) ==
  [stored EXCEPT
     !.status = Assigned(@, doc.status, body.status),
     !.resolvedAt = JsNumber(at),
     !.priority = Assigned(@, doc.priority, body.priority),
     !.reportedBy = Or(Get(user, "id"), JsString("")).s]

\* Faulty variant of Updated: resolvedAt is left as it was.
UpdatedNoTimestamp(stored, doc, body, user, at) ==
  [stored EXCEPT
     !.status = Assigned(@, doc.status, body.status),
     !.priority = Assigned(@, doc.priority, body.priority)]

\* if (status) { bug.status = status; if (status === 'resolved')
\* bug.resolvedAt = new Date(); } if (priority) bug.priority = priority;
\* await bug.save(): save writes the paths whose value differs from the
\* value the document was read with.
Updated(stored, doc, body, user, at) ==
  [stored EXCEPT
     !.status = Assigned(@, doc.status, body.status),
     !.resolvedAt = IF body.status = JsString("resolved")
                    THEN JsNumber(at) ELSE @,
     !.priority = Assigned(@, doc.priority, body.priority)]

\* await bug.save() is over in the PUT handler: the bug is written, unless
\* it was deleted meanwhile, or its priority is none of the schema's, which
\* save reports as an error.
PutBugSaved(slot) ==
  /\ At(slot, "PUT /api/bugs/:id", "saving")
  /\ IF bugs[Target(slot)].st # "stored"
     THEN /\ Answer(slot, DatabaseError("No document found"))
          /\ UNCHANGED bugs
     ELSE IF Updated(bugs[Target(slot)], inflight[slot].doc,
                     inflight[slot].body, inflight[slot].user, now).priority
               \notin {"low", "medium", "high", "critical"}
     THEN /\ Answer(slot, DatabaseError("Bug validation failed"))
          /\ UNCHANGED bugs
     ELSE /\ bugs' = [bugs EXCEPT
               ![Target(slot)] =
                  Updated(bugs[Target(slot)], inflight[slot].doc,
                          inflight[slot].body, inflight[slot].user, now)]
          /\ Answer(slot, 200)
  /\ UNCHANGED <<now, JWT_SECRET, issued, last, posts, form>>

\* DELETE /api/bugs/:id: the gate, the check of the id, then
\* Bug.findByIdAndDelete is awaited.
DeleteBug(slot, a, id) ==
  /\ Enter(slot, "DELETE /api/bugs/:id", a, id, << >>,
           IF isValidObjectId(id) THEN "deleting" ELSE "done", 400)
  /\ UNCHANGED <<now, JWT_SECRET, issued, last, posts, bugs, form>>

\* await Bug.findByIdAndDelete(req.params.id) is over: 404, or the bug is
\* gone.
BugDeleted(slot) ==
  /\ At(slot, "DELETE /api/bugs/:id", "deleting")
  /\ IF FindById(bugs, BugIds, inflight[slot].id).st # "stored"
     THEN /\ Answer(slot, 404)
          /\ UNCHANGED bugs
     ELSE /\ bugs' = [bugs EXCEPT ![Target(slot)] = Deleted]
          /\ Answer(slot, 200)
  /\ UNCHANGED <<now, JWT_SECRET, issued, last, posts, form>>

\* POST /api/bugs/:id/comments: the gate, the checks of the id and of the
\* text (text.trim().length === 0), then Bug.findById is awaited.  The
\* comments on a bug, stored and on their way, are bounded in number.
CommentBug(slot, a, id, text) ==
  /\ Len((FindById(bugs, BugIds, id) @@ [comments |-> << >>]).comments)
       + Cardinality({s \in Slots :
                        /\ inflight[s].st \in {"finding", "saving"}
                        /\ inflight[s].route = "POST /api/bugs/:id/comments"})
       < MaxComments
  /\ Enter(slot, "POST /api/bugs/:id/comments", a, id, [text |-> text],
           IF /\ isValidObjectId(id)
              /\ \E i \in 1..Len(text.s) : ~IsSpace(CharAt(text.s, i))
           THEN "finding" ELSE "done",
           400)
  /\ UNCHANGED <<now, JWT_SECRET, issued, last, posts, bugs, form>>

\* bug.comments.push({text, author: req.user.id}); await bug.save() is over:
\* the comment is appended, unless its author is no ObjectId or the bug was
\* deleted meanwhile.
CommentSaved(slot) ==
  /\ At(slot, "POST /api/bugs/:id/comments", "saving")
  /\ IF \/ bugs[Target(slot)].st # "stored"
        \/ ~IsObjectIdString(Get(inflight[slot].user, "id"))
     THEN /\ Answer(slot, DatabaseError("Bug validation failed"))
          /\ UNCHANGED bugs
     ELSE /\ bugs' = [bugs EXCEPT
               ![Target(slot)].comments =
                  Append(@, toLowerCase(Get(inflight[slot].user, "id").s))]
          /\ Answer(slot, 200)
  /\ UNCHANGED <<now, JWT_SECRET, issued, last, posts, form>>

NextBugs ==
  \/ \E slot \in Slots, a \in RouteCallers,
        title \in {Undefined, JsString("Bug"), JsString("Crash on save")},
        priority \in {Undefined, JsString("high"), JsString("urgent")} :
       CreateBug(slot, a, title, priority)
  \/ \E slot \in Slots : BugCreated(slot)
  \/ \E slot \in Slots : GetBugs(slot)
  \/ \E slot \in Slots : BugsListed(slot)
  \/ \E slot \in Slots, id \in BugTargets : GetBug(slot, id)
  \/ \E slot \in Slots : BugRead(slot)
  \/ \E slot \in Slots, a \in RouteCallers, id \in BugTargets,
        body \in PutBodies :
       PutBug(slot, a, id, body)
  \/ \E slot \in Slots : BugFound(slot, "PUT /api/bugs/:id")
  \/ \E slot \in Slots : PutBugSaved(slot)
  \/ \E slot \in Slots, a \in RouteCallers, id \in BugTargets :
       DeleteBug(slot, a, id)
  \/ \E slot \in Slots : BugDeleted(slot)
  \/ \E slot \in Slots, a \in RouteCallers, id \in BugTargets,
        text \in {JsString(" "), JsString("Looks fixed")} :
       CommentBug(slot, a, id, text)
  \/ \E slot \in Slots : BugFound(slot, "POST /api/bugs/:id/comments")
  \/ \E slot \in Slots : CommentSaved(slot)
  \/ \E slot \in Slots : Leave(slot)

BugSpec == InitRoutes /\ [][NextBugs]_vars

(***************************************************************************)
(* client/src/hooks/useForm.js.  form.values, form.errors and              *)
(* form.isSubmitting are the state of the last render, which the hook      *)
(* returned and which its handlers close over; form.next is that state     *)
(* with the updates queued since then applied in order, which the next     *)
(* render will return; form.pending counts the onSubmit calls that have    *)
(* not settled.                                                            *)
(***************************************************************************)
MaxPending == 2

\* handleChange(e) with e.target = { name, value, type, checked }: the value
\* is set by an updater; the error is cleared by an updater if errors[name]
\* of the last render is truthy.
HandleChange(name, value, type, checked) ==
  /\ form' = [form EXCEPT
       !.next.values[name] = IF type = "checkbox" THEN checked ELSE value,
       !.next.errors[name] = IF Truthy(form.errors[name]) THEN Undefined ELSE @]
  /\ UNCHANGED <<now, JWT_SECRET, issued, last, inflight, posts, bugs>>

\* setFieldError(name, error)
SetFieldError(name, error) ==
  /\ form' = [form EXCEPT !.next.errors[name] = error]
  /\ UNCHANGED <<now, JWT_SECRET, issued, last, inflight, posts, bugs>>

\* handleSubmit(e) up to its await: setIsSubmitting(true), then onSubmit is
\* called with the values of the last render.
HandleSubmit ==
  /\ form.pending < MaxPending
  /\ form' = [form EXCEPT !.next.isSubmitting = TRUE, !.pending = @ + 1]
  /\ UNCHANGED <<now, JWT_SECRET, issued, last, inflight, posts, bugs>>

\* The errors handleSubmit's catch block sets for what onSubmit rejected with.
Caught(error) ==
  IF Truthy(Get(error, "data")) /\ Truthy(Get(Get(error, "data"), "errors"))
  THEN [k \in ErrorKeys |-> Get(Get(Get(error, "data"), "errors"), k)]
  ELSE [k \in ErrorKeys |->
          IF k = "form"
          THEN Or(Get(error, "message"), JsString("An error occurred"))
          ELSE Undefined]

\* An onSubmit call settles and handleSubmit goes on after its await: on a
\* rejection the catch block runs, and throws itself when the reason is null
\* or undefined; the finally block runs in every case.
Settle(outcome) ==
  /\ form.pending > 0
  /\ form' = [form EXCEPT
       !.pending = @ - 1,
       !.next.isSubmitting = FALSE,
       !.next.errors = IF outcome.threw /\ ~NoProperties(outcome.error)
                       THEN Caught(outcome.error) ELSE @]
  /\ last' = [op |-> "onSubmit", out |-> outcome]
  /\ UNCHANGED <<now, JWT_SECRET, issued, inflight, posts, bugs>>

\* React renders the component again: the queued updates become the state
\* the hook returns.
Render ==
  /\ form.next # [values |-> form.values, errors |-> form.errors,
                  isSubmitting |-> form.isSubmitting]
  /\ form' = [form EXCEPT !.values = form.next.values,
                          !.errors = form.next.errors,
                          !.isSubmitting = form.next.isSubmitting]
  /\ UNCHANGED <<now, JWT_SECRET, issued, last, inflight, posts, bugs>>

NextForm ==
  \/ HandleChange("email", JsString("a@b.c"), "text", JsBoolean(FALSE))
  \/ HandleChange("agree", JsString("on"), "checkbox", JsBoolean(TRUE))
  \/ \E name \in DOMAIN initialValues : SetFieldError(name, JsString("Required"))
  \/ HandleSubmit
  \/ \E outcome \in
          { Returned(Undefined),
            Thrown(Undefined),
            Thrown(ErrorWith(<<Prop("message", JsString("Network error"))>>)),
            Thrown(ErrorWith(<<Prop("message", JsString(""))>>)),
            Thrown(ErrorWith(
              <<Prop("message", JsString("API Error: 400")),
                Prop("data", JsObject(<<Prop("error", JsString("Invalid"))>>))>>)),
            Thrown(ErrorWith(
              <<Prop("message", JsString("API Error: 400")),
                Prop("data",
                     JsObject(<<Prop("errors",
                                     JsObject(<<Prop("email",
                                                     JsString("Required"))>>))>>))>>))
          } : Settle(outcome)
  \/ Render

FormSpec == InitRoutes /\ [][NextForm]_vars

(***************************************************************************)
(* Properties of authMiddleware.                                           *)
(***************************************************************************)
\* The last step was a request passing through authMiddleware.
GateCalled == last.op = "authMiddleware"

\* The request carried a headers object.
HasHeaders(req) == ~NoProperties(req.headers)

\* req.headers.authorization of a request with a headers object.
AuthorizationOf(req) == Get(req.headers, "authorization")

\* The header value is a string with the exact seven-character prefix.
HasBearerPrefix(a) ==
  a.t = "string" /\ Len(a.s) >= 7 /\ SubSeq(a.s, 1, 7) = "Bearer "

\* The last request carried a bearer header.
BearerRequest ==
  GateCalled /\ HasHeaders(last.req) /\ HasBearerPrefix(AuthorizationOf(last.req))

\* The remainder of a bearer header after its prefix.
BearerToken(a) == JsString(SubSeq(a.s, 8, Len(a.s)))

\* Exactly one response was sent: 401 with this error message.
Answered401(out, message) ==
  out.sent = <<[status |-> 401, error |-> message]>>

\* C1: for every request and every behaviour of the downstream handler,
\* either next() is called once and no response is sent, or a single 401
\* response is sent and next() is never called; never both.
C1_ExactlyOneOutcome ==
  GateCalled =>
    \/ last.out.nextCalls = 1 /\ last.out.sent = <<>>
    \/ /\ last.out.nextCalls = 0
       /\ Len(last.out.sent) = 1
       /\ last.out.sent[1].status = 401

\* C2: a request whose Authorization header is absent, or is a string that
\* does not start with the exact prefix 'Bearer ', is answered 401 'Missing or
\* invalid authorization header'; next() and verifyToken are not called.
C2_MissingOrWrongScheme ==
  (/\ GateCalled
   /\ HasHeaders(last.req)
   /\ AuthorizationOf(last.req).t \in {"undefined", "null", "string"}
   /\ ~HasBearerPrefix(AuthorizationOf(last.req)))
    => /\ Answered401(last.out, "Missing or invalid authorization header")
       /\ last.out.nextCalls = 0
       /\ last.out.verifyCalls = 0

\* C2 happens: 'Bearer' without the space was refused before verification.
C2_Witness ==
  /\ GateCalled
  /\ HasHeaders(last.req)
  /\ AuthorizationOf(last.req) = JsString("Bearer")
  /\ Answered401(last.out, "Missing or invalid authorization header")
  /\ last.out.verifyCalls = 0

\* C3: when the header starts with 'Bearer ' and verifyToken returns null for
\* the remainder, the answer is 401 'Invalid token' and next() is not called.
C3_InvalidToken ==
  (BearerRequest /\ verifyToken(BearerToken(AuthorizationOf(last.req))).ret = Null)
    => /\ Answered401(last.out, "Invalid token")
       /\ last.out.nextCalls = 0

\* C3 happens: a bearer token that does not verify was refused.
C3_Witness ==
  /\ BearerRequest
  /\ AuthorizationOf(last.req) = JsString("Bearer invalid.token.here")
  /\ verifyToken(JsString("invalid.token.here")).ret = Null
  /\ Answered401(last.out, "Invalid token")
  /\ last.out.verifyCalls = 1

\* The id generateToken is to encode for a user: _id, or id when _id is
\* missing or empty.
IdOf(user) ==
  IF Get(user, "_id") \notin {Undefined, JsString("")}
  THEN Get(user, "_id") ELSE Get(user, "id")

\* C4: whenever verifyToken succeeds on the bearer token, req.user is exactly
\* the claims it returned, next() is called and no response is sent; for the
\* token generateToken issued, req.user.id and req.user.email are the issuing
\* user's.
C4_AttachAndProceed ==
  (BearerRequest /\ verifyToken(BearerToken(AuthorizationOf(last.req))).ret # Null)
    => /\ last.out.user = verifyToken(BearerToken(AuthorizationOf(last.req))).ret
       /\ last.out.nextCalls = 1
       /\ last.out.sent = <<>>
       /\ (issued.held /\ BearerToken(AuthorizationOf(last.req)).s = issued.token)
            => /\ Get(last.out.user, "id") = IdOf(issued.user)
               /\ Get(last.out.user, "email") = Get(issued.user, "email")

\* C5: any exception raised while the request is processed is caught and
\* answered 401 'Authentication failed'; authMiddleware does not throw to its
\* caller and does not let such a request through.
C5_FailClosed ==
  GateCalled =>
    /\ ~last.out.threw
    /\ GateTry(last.req, last.nxt).threw
         => /\ Answered401(last.out, "Authentication failed")
            /\ last.out.nextCalls = 0

(***************************************************************************)
(* Properties of generateToken and verifyToken.                            *)
(***************************************************************************)
\* A non-empty string.
NonEmptyString(x) == x.t = "string" /\ x.s # ""

\* A user record with non-empty id (as _id or id), email and username.
Complete(user) ==
  /\ user.t = "object"
  /\ NonEmptyString(IdOf(user))
  /\ NonEmptyString(Get(user, "email"))
  /\ NonEmptyString(Get(user, "username"))

\* The claims carry the user's id, email and username.
Matches(claims, user) ==
  /\ claims.t = "object"
  /\ Get(claims, "id") = IdOf(user)
  /\ Get(claims, "email") = Get(user, "email")
  /\ Get(claims, "username") = Get(user, "username")

\* C6: for every user record with non-empty id, email and username,
\* verifyToken(generateToken(user)) returns claims with the user's id, email
\* and username; a token issued for the same user at another instant verifies
\* to the same three, with its own iat.
C6_RoundTrip ==
  /\ (/\ last.op = "verifyToken"
      /\ issued.held
      /\ last.token = JsString(issued.token)
      /\ Complete(issued.user))
       => /\ ~last.out.threw
          /\ Matches(last.out.ret, issued.user)
          /\ Get(last.out.ret, "iat") = JsNumber(issued.at)
  /\ (/\ last.op = "generateToken"
      /\ issued.held
      /\ last.user = issued.user
      /\ Complete(last.user))
       => /\ ~last.out.threw
          /\ Matches(verifyToken(last.out.ret).ret, last.user)
          /\ Matches(verifyToken(JsString(issued.token)).ret, last.user)
          /\ Get(verifyToken(last.out.ret).ret, "iat") = JsNumber(last.at)

\* C6 happens: a second token, issued for the same user one second later,
\* differs from the first and verifies to the same user.
C6_Witness ==
  /\ last.op = "generateToken"
  /\ issued.held
  /\ last.user = issued.user
  /\ Complete(last.user)
  /\ last.at # issued.at
  /\ last.out.ret.s # issued.token
  /\ Matches(verifyToken(last.out.ret).ret, issued.user)

\* The string splits on '.' into exactly three non-empty segments.
ThreeNonEmptySegments(str) ==
  /\ Len(split(str, ".")) = 3
  /\ \A i \in 1..3 : split(str, ".")[i] # ""

\* C7: verifyToken returns null for every string that does not split on '.'
\* into exactly three non-empty segments.
C7_ExactlyThreeSegments ==
  (/\ last.op = "verifyToken"
   /\ last.token.t = "string"
   /\ ~ThreeNonEmptySegments(last.token.s))
    => last.out.ret = Null

\* The text the payload segment of a token string decodes to.
PayloadText(str) == StringOf(Base64Decode(split(str, ".")[2]))

\* C8: verifyToken never throws; for every input it returns null or the
\* claims its payload segment decodes to, and it returns null whenever the
\* input is not a string or the payload does not parse.
C8_NeverThrows ==
  last.op = "verifyToken" =>
    /\ ~last.out.threw
    /\ last.token.t # "string" => last.out.ret = Null
    /\ last.out.ret # Null =>
         /\ Len(split(last.token.s, ".")) >= 2
         /\ JSON_parse(PayloadText(last.token.s)).ok
         /\ last.out.ret = JSON_parse(PayloadText(last.token.s)).v
    /\ (/\ last.token.t = "string"
        /\ Len(split(last.token.s, ".")) >= 2
        /\ ~JSON_parse(PayloadText(last.token.s)).ok)
         => last.out.ret = Null

\* C8 happens: a payload that is no JSON made JSON.parse throw; the exception
\* was caught and logged, and null returned.
C8_Witness ==
  /\ last.op = "verifyToken"
  /\ last.token = JsString("header.!!!invalid-base64!!!.signature")
  /\ ~JSON_parse(PayloadText(last.token.s)).ok
  /\ ~last.out.threw
  /\ last.out.ret = Null
  /\ Len(last.out.log) = 1

\* A request that carries this token string as its bearer token.
BearerRequestFor(str) ==
  Request(JsObject(<<Prop("authorization", JsString("Bearer " \o str))>>))

\* The first three segments of the string are non-empty.
WellFormed(str) ==
  /\ Len(split(str, ".")) >= 3
  /\ \A i \in 1..3 : split(str, ".")[i] # ""

\* C9: the result of verifyToken, and with it the decision of the gate and
\* req.user, does not depend on the header and signature segments: the same
\* payload under another header and signature verifies to the same claims.
C9_SignatureIgnored ==
  /\ (/\ last.op = "verifyToken"
      /\ last.token.t = "string"
      /\ WellFormed(last.token.s))
       => verifyToken(JsString(Resign(last.token.s))).ret = last.out.ret
  /\ (BearerRequest /\ WellFormed(BearerToken(AuthorizationOf(last.req)).s))
       => LET other == authMiddleware(
                         BearerRequestFor(
                           Resign(BearerToken(AuthorizationOf(last.req)).s)),
                         last.nxt)
          IN /\ other.user = last.out.user
             /\ other.sent = last.out.sent
             /\ other.nextCalls = last.out.nextCalls

\* C9 happens: the payload of an issued token, under a header and a signature
\* generateToken never produced, passed the gate with the issuing user's id.
C9_Witness ==
  /\ GateCalled
  /\ issued.held
  /\ Complete(issued.user)
  /\ last.req = BearerRequestFor(Resign(issued.token))
  /\ Resign(issued.token) # issued.token
  /\ last.nxt = "returns"
  /\ last.out.nextCalls = 1
  /\ last.out.sent = <<>>
  /\ Get(last.out.user, "id") = IdOf(issued.user)

Keys(obj) == {obj.o[i].k : i \in 1..Len(obj.o)}

\* The claims a token string encodes.
ClaimsOf(str) == JSON_parse(PayloadText(str)).v

C11_IdClaim ==
  (last.op = "generateToken" /\ last.user.t = "object")
    => Get(ClaimsOf(last.out.ret.s), "id")
         = IF "_id" \in Keys(last.user)
           THEN Get(last.user, "_id") ELSE Get(last.user, "id")

\* C12: whenever authMiddleware allows a request (calls next), req.user is a
\* claims object that carries id, email and username.
C12_IdentityAttached ==
  (GateCalled /\ last.out.nextCalls > 0)
    => /\ last.out.user.t = "object"
       /\ {"id", "email", "username"} \subseteq Keys(last.out.user)

\* A verification failure of the kinds C13 names: no string, a missing or
\* empty segment among the three, or a payload that does not decode to JSON.
VerificationFailure(token) ==
  \/ token.t # "string"
  \/ ~WellFormed(token.s)
  \/ ~JSON_parse(PayloadText(token.s)).ok

\* C13 as stated: every verification failure writes a diagnostic log entry
\* at the verifier, and a successful verification writes none.
C13_EveryFailureLogged ==
  last.op = "verifyToken" =>
    IF VerificationFailure(last.token)
    THEN Len(last.out.log) = 1 ELSE last.out.log = <<>>

\* The try block of verifyToken throws: token.split on a value that is no
\* string, or JSON.parse on the decoded payload of three non-empty segments.
VerifierThrows(token) ==
  \/ token.t # "string"
  \/ WellFormed(token.s) /\ ~JSON_parse(PayloadText(token.s)).ok

\* C13, amended: verifyToken writes exactly one log entry, 'Token
\* verification error:' with the exception's message, when its input is no
\* string or the payload of three non-empty segments does not parse, and it
\* returns null then; a token with a missing or empty segment is refused with
\* null and no log entry, and a successful verification writes none.
C13_ExceptionsLogged ==
  last.op = "verifyToken" =>
    IF VerifierThrows(last.token)
    THEN /\ Len(last.out.log) = 1
         /\ last.out.log[1].text = "Token verification error:"
         /\ last.out.ret = Null
    ELSE /\ last.out.log = <<>>
         /\ (last.token.t = "string" /\ ~WellFormed(last.token.s))
              => last.out.ret = Null

\* C13 happens: a token of two segments was refused without a log entry.
C13_Witness ==
  /\ last.op = "verifyToken"
  /\ last.token = JsString("two.parts")
  /\ last.out.ret = Null
  /\ last.out.log = <<>>

\* C15: tokens never expire: an issued token verifies to the claims it
\* encodes at every later moment, and the gate lets it through then as well.
C15_NeverExpires ==
  /\ (/\ last.op = "verifyToken"
      /\ issued.held
      /\ last.token = JsString(issued.token))
       => /\ last.out.ret = ClaimsOf(issued.token)
          /\ Get(last.out.ret, "iat") = JsNumber(issued.at)
  /\ (/\ GateCalled
      /\ issued.held
      /\ last.req = BearerRequestFor(issued.token))
       => /\ last.out.nextCalls = 1
          /\ last.out.user = ClaimsOf(issued.token)

\* C15 happens: a token was verified after the second it was issued in.
C15_Witness ==
  /\ last.op = "verifyToken"
  /\ issued.held
  /\ last.token = JsString(issued.token)
  /\ now > issued.at
  /\ last.out.ret.t = "object"
  /\ Get(last.out.ret, "iat").n < now

\* The gate's decision on a request, and the claims attached to it.
Decision(out) == [allowed |-> out.nextCalls > 0, user |-> out.user]

ExpectedMessage(err) ==
  IF NonEmptyString(Get(err, "message"))
  THEN Get(err, "message") ELSE JsString("Internal Server Error")

\* C20 as stated: errorHandler sends exactly one response for every error;
\* its status is err.status when that is set and 500 otherwise, and its error
\* field is err.message when non-empty and 'Internal Server Error' otherwise.
C20_StatusAndMessage ==
  last.op = "errorHandler" =>
    /\ ~last.out.threw
    /\ Len(last.out.sent) = 1
    /\ last.out.sent[1].status
         = IF Get(last.err, "status") # Undefined
           THEN Get(last.err, "status") ELSE JsNumber(500)
    /\ Get(last.out.sent[1].body, "error") = ExpectedMessage(last.err)

\* C20, amended: for every error value other than null and undefined,
\* errorHandler sends exactly one response; its status is err.status when
\* that is set and not zero, and 500 otherwise; its error field is
\* err.message when non-empty and 'Internal Server Error' otherwise.
C20_TruthyStatusAndMessage ==
  (last.op = "errorHandler" /\ last.err \notin {Null, Undefined}) =>
    /\ ~last.out.threw
    /\ Len(last.out.sent) = 1
    /\ last.out.sent[1].status
         = IF Get(last.err, "status") \notin {Undefined, JsNumber(0)}
           THEN Get(last.err, "status") ELSE JsNumber(500)
    /\ Get(last.out.sent[1].body, "error") = ExpectedMessage(last.err)

\* C20 happens: an error without a message property kept its status and got
\* the default message.
C20_Witness ==
  /\ last.op = "errorHandler"
  /\ last.err = ErrorWith(<<Prop("status", JsNumber(422))>>)
  /\ last.out.sent
       = <<[status |-> JsNumber(422),
            body |-> JsObject(<<Prop("error",
                                     JsString("Internal Server Error"))>>)]>>

(***************************************************************************)
(* Properties of the post routes.                                          *)
(***************************************************************************)
\* The id claim of the caller of a slot's request.
CallerId(slot) == Get(RouteGateTable[inflight[slot].auth].user, "id")

\* A slot stands in the PUT or the DELETE handler of /api/posts/:id.
InPostWrite(slot) ==
  /\ inflight[slot].st # "free"
  /\ inflight[slot].route \in {"PUT /api/posts/:id", "DELETE /api/posts/:id"}

\* This step changes or removes the stored post at position i.
PostTouched(i) == posts[i].st = "stored" /\ posts'[i] # posts[i]

\* This step ends the findById of a slot whose target is a well-formed id.
FindEnds(slot) ==
  /\ InPostWrite(slot)
  /\ inflight[slot].st = "finding"
  /\ inflight'[slot] # inflight[slot]
  /\ IsObjectIdString(JsString(inflight[slot].id))

GatedBugRoutes ==
  {"POST /api/bugs", "PUT /api/bugs/:id", "DELETE /api/bugs/:id",
   "POST /api/bugs/:id/comments"}

\* The gate denies the request a slot holds: authMiddleware does not call
\* next for its Authorization header.
Denied(slot) == RouteGateTable[inflight[slot].auth].nextCalls = 0

\* A slot holds a request to one of the routes.
Holds(slot, routes) ==
  inflight[slot].st # "free" /\ inflight[slot].route \in routes

IdClaimTable ==
  [a \in RouteCallers \ {Undefined} |-> Get(ClaimsOf(BearerToken(a).s), "id")]

\* C17: every bug created through POST /api/bugs has reportedBy equal to the
\* id claim of the bearer token of the creating request, starts with status
\* 'open' and with priority 'medium' unless a priority was given, and no later
\* step alters the reportedBy of a stored bug.
C17_ReportedBy ==
  [][\A i \in DOMAIN bugs :
       /\ (bugs[i].st = "unused" /\ bugs'[i].st = "stored") =>
            \E slot \in Slots :
              /\ inflight[slot].st = "creating"
              /\ inflight[slot].route = "POST /api/bugs"
              /\ inflight'[slot].st = "done"
              /\ inflight'[slot].status = 201
              /\ JsString(bugs'[i].reportedBy) = IdClaimTable[inflight[slot].auth]
              /\ bugs'[i].status = "open"
              /\ bugs'[i].priority =
                   IF inflight[slot].body.priority = Undefined
                   THEN "medium" ELSE inflight[slot].body.priority.s
       /\ (bugs[i].st = "stored" /\ bugs'[i].st = "stored") =>
            bugs'[i].reportedBy = bugs[i].reportedBy
       /\ bugs'[i].st = "stored" => bugs[i].st \in {"unused", "stored"}
  ]_vars

\* C17 happens: the bug one user reported with a priority was resolved and
\* commented by the other, and is still reported by the first.
C17_Witness ==
  /\ bugs[1].st = "stored"
  /\ bugs[1].reportedBy = UserB
  /\ bugs[1].priority = "high"
  /\ bugs[1].status = "resolved"
  /\ bugs[1].comments = <<UserA>>

\* The save of a PUT /api/bugs/:id whose body sets the status to 'resolved'
\* succeeds in this step.
ResolvedBy(slot) ==
  /\ inflight[slot].st = "saving"
  /\ inflight[slot].route = "PUT /api/bugs/:id"
  /\ inflight[slot].body.status = JsString("resolved")
  /\ inflight'[slot].st = "done"
  /\ inflight'[slot].status = 200

Overrides(options, header) ==
  header \in Keys(Get(options, "headers") @@ [o |-> << >>])

\* C22: whatever options the caller passes, the request given to fetch keeps
\* Content-Type: application/json and, whenever localStorage holds authToken,
\* Authorization: 'Bearer <token>', for each of those headers the caller did
\* not itself override.
C22_DefaultsKept ==
  last.op = "apiRequest" =>
    /\ Len(last.out.fetched) = 1
    /\ ~Overrides(last.options, "Content-Type") =>
         Get(Get(last.out.fetched[1], "headers"), "Content-Type")
           = JsString("application/json")
    /\ (Truthy(last.token) /\ ~Overrides(last.options, "Authorization")) =>
         Get(Get(last.out.fetched[1], "headers"), "Authorization")
           = JsString("Bearer " \o last.token.s)

(***************************************************************************)
(* Properties of sanitizeInput.                                            *)
(***************************************************************************)
\* The characters of a string other than whitespace and angle brackets.
Ink(str) ==
  SelectSeq([i \in 1..Len(str) |-> CharAt(str, i)],
            LAMBDA c : ~IsSpace(c) /\ c \notin {"<", ">"})

\* C25: for every string input, sanitizeInput returns a string that contains
\* no '<' or '>' and has no leading or trailing whitespace, and that otherwise
\* preserves the input's characters in order; for every non-string input it
\* returns the empty string.
C25_Sanitized ==
  last.op = "sanitizeInput" =>
    IF last.input.t # "string" THEN last.out = JsString("")
    ELSE /\ last.out.t = "string"
         /\ \A i \in 1..Len(last.out.s) : CharAt(last.out.s, i) \notin {"<", ">"}
         /\ Ink(last.out.s) = Ink(last.input.s)
         /\ last.out.s # "" =>
              /\ ~IsSpace(CharAt(last.out.s, 1))
              /\ ~IsSpace(CharAt(last.out.s, Len(last.out.s)))

(***************************************************************************)
(* Properties of useForm.                                                  *)
(***************************************************************************)
\* The errors a rejection is to leave: error.data.errors when present, and
\* otherwise { form: message }.
ErrorsFor(error) ==
  IF Get(Get(error, "data"), "errors") # Undefined
  THEN [k \in ErrorKeys |-> Get(Get(Get(error, "data"), "errors"), k)]
  ELSE [k \in ErrorKeys |->
          IF k # "form" THEN Undefined
          ELSE IF Get(error, "message") \in {Undefined, JsString("")}
          THEN JsString("An error occurred") ELSE Get(error, "message")]

\* C23: isSubmitting is false before a submission, becomes true when
\* handleSubmit starts, is turned off by nothing but the settling of
\* onSubmit, and returns to false once onSubmit settles, resolved or
\* rejected; a rejection fills errors with error.data.errors when present and
\* otherwise with {form: message}.
C23_SubmissionCycle ==
  [][/\ form'.pending > form.pending => form'.next.isSubmitting
     /\ (form.next.isSubmitting /\ ~form'.next.isSubmitting)
          => form'.pending < form.pending
     /\ form'.pending < form.pending =>
          /\ ~form'.next.isSubmitting
          /\ last'.out.threw => form'.next.errors = ErrorsFor(last'.out.error)
  ]_vars

\* What handleChange is to leave for a field: the new value, no error for
\* the field, the errors of the other keys as they were.
Changed(name, fieldValue) ==
  /\ form'.next.values[name] = fieldValue
  /\ form'.next.errors[name] = Undefined
  /\ \A k \in ErrorKeys \ {name} : form'.next.errors[k] = form.next.errors[k]

\* C24: after handleChange is applied to field f, values[f] holds the new
\* value, errors[f] is cleared and the errors of all other fields are
\* unchanged, whatever setFieldError, handleSubmit and handleChange calls
\* came before, those made since the last render included.
C24_ChangeClearsError ==
  [][/\ HandleChange("email", JsString("a@b.c"), "text", JsBoolean(FALSE))
          => Changed("email", JsString("a@b.c"))
     /\ HandleChange("agree", JsString("on"), "checkbox", JsBoolean(TRUE))
          => Changed("agree", JsBoolean(TRUE))
  ]_vars

\* C29: isSubmitting is true in every state in which at least one onSubmit
\* call started by handleSubmit is still pending, also when handleSubmit is
\* invoked again before an earlier submission has settled; isSubmitting is
\* taken with every queued update applied.
C29_SubmittingWhilePending ==
  form.pending > 0 => form.next.isSubmitting

\* The ids of the requests that match /^[a-f\d]{24}$/i.
WellFormedIds == {id \in BugTargets : isValidObjectId(id)}

\* The step takes a PUT /api/bugs/:id of a caller the guard lets in into the
\* slot.
Entering(slot) ==
  /\ inflight[slot].st = "free"
  /\ inflight'[slot].st # "free"
  /\ inflight'[slot].route = "PUT /api/bugs/:id"
  /\ RouteGateTable[inflight'[slot].auth].nextCalls = 1

\* A value is given and is none of the allowed ones.
Outside(value, allowed) == value # Undefined /\ value.s \notin allowed

\* A value is given, is not empty and is none of the allowed ones.
NonEmptyOutside(value, allowed) == Truthy(value) /\ value.s \notin allowed

\* A stored bug of which a field other than the comments changes in the step.
Touched(i) ==
  /\ bugs[i].st = "stored"
  /\ bugs'[i].st = "stored"
  /\ bugs'[i] # [bugs[i] EXCEPT !.comments = bugs'[i].comments]

\* C26: a PUT /api/bugs/:id with a malformed id, a status outside {open,
\* in-progress, resolved} or a priority outside {low, medium, high, critical}
\* is answered 400 and leaves every field of every stored bug unchanged, also
\* when the body carries valid fields too; a well-formed id with no stored
\* bug is answered 404 with nothing changed.  For a request that is not
\* answered 400 on entering, and for a request whose save changes a bug,
\* the id is then well-formed and the status and priority are none of those.
C26_Rejected ==
  [][/\ \A slot \in Slots :
          Entering(slot) =>
            /\ bugs' = bugs
            /\ \/ inflight'[slot] =
                    Answered("PUT /api/bugs/:id", inflight'[slot].auth, 400)
               \/ /\ inflight'[slot].st = "finding"
                  /\ inflight'[slot].id \in WellFormedIds
                  /\ ~Outside(inflight'[slot].body.status,
                              {"open", "in-progress", "resolved"})
                  /\ ~Outside(inflight'[slot].body.priority,
                              {"low", "medium", "high", "critical"})
     /\ \A slot \in Slots :
          /\ BugFound(slot, "PUT /api/bugs/:id")
          /\ FindById(bugs, BugIds, inflight[slot].id).st # "stored"
          => /\ inflight'[slot] =
                  Answered("PUT /api/bugs/:id", inflight[slot].auth, 404)
             /\ bugs' = bugs
     /\ \A i \in DOMAIN bugs :
          Touched(i) =>
            \E slot \in Slots :
              /\ At(slot, "PUT /api/bugs/:id", "saving")
              /\ Target(slot) = i
              /\ ~Outside(inflight[slot].body.status,
                          {"open", "in-progress", "resolved"})
              /\ ~Outside(inflight[slot].body.priority,
                          {"low", "medium", "high", "critical"})
  ]_vars

\* C26, as the code has it: a PUT /api/bugs/:id that passes the guard with a
\* malformed id, a non-empty status outside {open, in-progress, resolved} or
\* a non-empty priority outside {low, medium, high, critical} is answered 400
\* and leaves every stored bug unchanged, also when the body carries valid
\* fields too; an empty status or priority counts as not given, and the rest
\* of the body is applied.  A request that passes these checks and whose id
\* has no stored bug is answered 404 with nothing changed.
C26_RejectedWhenNonEmpty ==
  [][/\ \A slot \in Slots :
          Entering(slot) =>
            /\ bugs' = bugs
            /\ \/ inflight'[slot] =
                    Answered("PUT /api/bugs/:id", inflight'[slot].auth, 400)
               \/ /\ inflight'[slot].st = "finding"
                  /\ inflight'[slot].id \in WellFormedIds
                  /\ ~NonEmptyOutside(inflight'[slot].body.status,
                                      {"open", "in-progress", "resolved"})
                  /\ ~NonEmptyOutside(inflight'[slot].body.priority,
                                      {"low", "medium", "high", "critical"})
     /\ \A slot \in Slots :
          /\ BugFound(slot, "PUT /api/bugs/:id")
          /\ FindById(bugs, BugIds, inflight[slot].id).st # "stored"
          => /\ inflight'[slot] =
                  Answered("PUT /api/bugs/:id", inflight[slot].auth, 404)
             /\ bugs' = bugs
     /\ \A i \in DOMAIN bugs :
          Touched(i) =>
            \E slot \in Slots :
              /\ At(slot, "PUT /api/bugs/:id", "saving")
              /\ Target(slot) = i
              /\ ~NonEmptyOutside(inflight[slot].body.status,
                                  {"open", "in-progress", "resolved"})
              /\ ~NonEmptyOutside(inflight[slot].body.priority,
                                  {"low", "medium", "high", "critical"})
  ]_vars

\* C26 happens: a user's PUT was answered 404 while no bug was stored, and
\* a user's PUT was answered 400 with the bug stored, which is as it was
\* created.
C26_Witness ==
  \E s1, s2 \in Slots, a, b \in RouteCallers :
    /\ RouteGateTable[a].nextCalls = 1
    /\ RouteGateTable[b].nextCalls = 1
    /\ inflight[s1] = Answered("PUT /api/bugs/:id", a, 400)
    /\ inflight[s2] = Answered("PUT /api/bugs/:id", b, 404)
    /\ bugs[1].st = "stored"
    /\ bugs[1].status = "open"
    /\ bugs[1].priority = "high"
    /\ bugs[1].resolvedAt = Null

\* The place of a status in Open -> In Progress -> Resolved.
Rank(status) ==
  CASE status = "open" -> 0
    [] status = "in-progress" -> 1
    [] status = "resolved" -> 2

\* C27: the status of a bug moves only forward along Open -> In Progress ->
\* Resolved: no successful PUT /api/bugs/:id takes a bug from resolved back
\* to in-progress or open, or from in-progress back to open.
C27_ForwardOnly ==
  [][\A i \in DOMAIN bugs :
       (bugs[i].st = "stored" /\ bugs'[i].st = "stored") =>
         Rank(bugs'[i].status) >= Rank(bugs[i].status)
  ]_vars

\* C28: a stored bug has a non-null resolvedAt exactly when its status is
\* 'resolved'.
C28_ResolvedAtIffResolved ==
  \A i \in DOMAIN bugs :
    bugs[i].st = "stored" =>
      (bugs[i].resolvedAt # Null <=> bugs[i].status = "resolved")

\* C30: when authMiddleware denies a request, by any of its 401 answers, it
\* leaves the request as it was: req.user is neither set nor modified, so a
\* denied request carries no claims.
C30_DeniedCarriesNoClaims ==
  (GateCalled /\ \E i \in DOMAIN last.out.sent : last.out.sent[i].status = 401)
    => last.out.user = last.req.user
====
